---- MODULE Spec2Model ----
(***************************************************************************)
(* Stepup.Chess.Platform: the Cloud Functions backend (functions/src).     *)
(* The Realtime Database (RTDB) and Firestore are the shared state; every  *)
(* callable function and trigger is a process whose awaits are the points  *)
(* where other processes interleave.  One action models one handler step:  *)
(* everything a handler does between two awaited store operations.         *)
(***************************************************************************)
EXTENDS Integers, Sequences, FiniteSets, Bags, TLC

\* ------------------------------------------------------------------ bounds
MaxCalls == 3
MaxGames == 2
MaxJoins == 2

\* ------------------------------------------------------------ basic values
Players == {"u1", "u2", "u3"}
NULL == "null"

CallIds == 1..MaxCalls
GameIds == 1..MaxGames
RunIds == 1..MaxJoins

KNOWN_PRESET_NAMES == {"Quick", "Normal", "Marathon"}
CostModes == {"baseDistance", "distance", "fixed"}

\* ----------------------------------------------------------------- board
\* A square is <<file, rank>>, a..h and 1..8 as 1..8.  A board lists the 64
\* squares rank by rank from a1; a piece is its FEN letter, "." an empty square.
Files == 1..8
Ranks == 1..8
Squares == Files \X Ranks
NoSquare == <<0, 0>>

Idx(sq) == (sq[2] - 1) * 8 + sq[1]

BackRank == <<"R", "N", "B", "Q", "K", "B", "N", "R">>
Lower(p) ==
  CASE p = "P" -> "p" [] p = "N" -> "n" [] p = "B" -> "b" [] p = "R" -> "r"
    [] p = "Q" -> "q" [] p = "K" -> "k" [] OTHER -> p
Upper(p) ==
  CASE p = "p" -> "P" [] p = "n" -> "N" [] p = "b" -> "B" [] p = "r" -> "R"
    [] p = "q" -> "Q" [] p = "k" -> "K" [] OTHER -> p

WhitePieces == {"P", "N", "B", "R", "Q", "K"}
BlackPieces == {"p", "n", "b", "r", "q", "k"}
ColorOf(p) == IF p \in WhitePieces THEN "w" ELSE IF p \in BlackPieces THEN "b" ELSE "-"

\* 'rnbqkbnr/pppppppp/8/8/8/8/PPPPPPPP/RNBQKBNR w KQkq - 0 1'
InitialBoard ==
  [i \in 1..64 |->
     LET f == ((i - 1) % 8) + 1
         r == ((i - 1) \div 8) + 1
     IN  CASE r = 1 -> BackRank[f]
           [] r = 2 -> "P"
           [] r = 7 -> "p"
           [] r = 8 -> Lower(BackRank[f])
           [] OTHER -> "."]

INITIAL_FEN == [board |-> InitialBoard, turn |-> "w"]
NoFen == [board |-> <<>>, turn |-> "-"]

At(board, sq) == board[Idx(sq)]

Abs(x) == IF x < 0 THEN 0 - x ELSE x
Max(x, y) == IF x >= y THEN x ELSE y
Sign(x) == IF x > 0 THEN 1 ELSE IF x < 0 THEN 0 - 1 ELSE 0

\* charCodeAt of a square's file letter and of its rank digit
FileCode(sq) == 96 + sq[1]
RankCode(sq) == 48 + sq[2]

\* ------------------------------------------------------------- cost model
\* DEFAULT_CONFIG's preset_quick, preset_normal, preset_marathon
DEFAULT_PRESETS ==
  [Quick |-> [pawn |-> 2, knight |-> 5, bishop |-> 5, rook |-> 7, queen |-> 10,
              king |-> 3, distanceCost |-> 1],
   Normal |-> [pawn |-> 50, knight |-> 80, bishop |-> 80, rook |-> 100,
               queen |-> 150, king |-> 30, distanceCost |-> 10],
   Marathon |-> [pawn |-> 200, knight |-> 350, bishop |-> 350, rook |-> 500,
                 queen |-> 750, king |-> 100, distanceCost |-> 50]]

MAX_STEP_DELTA_PER_CALL == 10000

\* what a JavaScript function returns when no case of its switch matches
UNDEFINED == 0 - 1

baseCostFor(preset, piece) ==
  CASE piece = "p" -> preset.pawn
    [] piece = "n" -> preset.knight
    [] piece = "b" -> preset.bishop
    [] piece = "r" -> preset.rook
    [] piece = "q" -> preset.queen
    [] piece = "k" -> preset.king
    [] OTHER -> UNDEFINED

\* A distance that is Chebyshev for the knight too, on which C28 and C29 fail
moveDistance_chebyshev(piece, from, to) ==
  Max(Abs(FileCode(to) - FileCode(from)), Abs(RankCode(to) - RankCode(from)))

moveDistance(piece, from, to) ==
  LET dx == Abs(FileCode(to) - FileCode(from))
      dy == Abs(RankCode(to) - RankCode(from))
  IN  IF piece = "n" THEN dx + dy ELSE Max(dx, dy)

\* A distance mode that charges one step for every far move, on which C29 fails
calculateCost_nearAndFar(preset, costMode, piece, from, to, capturingKing) ==
  CASE costMode = "baseDistance" ->
         baseCostFor(preset, piece) + moveDistance(piece, from, to) * preset.distanceCost
    [] costMode = "distance" ->
         IF moveDistance(piece, from, to) > 3 THEN preset.distanceCost
         ELSE moveDistance(piece, from, to) * preset.distanceCost
    [] costMode = "fixed" ->
         IF capturingKing THEN baseCostFor(preset, piece) * 2
         ELSE baseCostFor(preset, piece)
    [] OTHER -> UNDEFINED

calculateCost(preset, costMode, piece, from, to, capturingKing) ==
  CASE costMode = "baseDistance" ->
         baseCostFor(preset, piece) + moveDistance(piece, from, to) * preset.distanceCost
    [] costMode = "distance" -> moveDistance(piece, from, to) * preset.distanceCost
    [] costMode = "fixed" ->
         IF capturingKing THEN baseCostFor(preset, piece) * 2
         ELSE baseCostFor(preset, piece)
    [] OTHER -> UNDEFINED

\* ------------------------------------------------- the move-legality oracle
\* chess.js, as far as the handlers rely on it: a piece moves by its own
\* geometry over empty squares, never onto its own colour and never onto a
\* king; only the side to move moves.  Check, castling and en passant are
\* left to the oracle and are not modelled.
PathClear(board, from, to) ==
  LET dx == to[1] - from[1]
      dy == to[2] - from[2]
      n == Max(Abs(dx), Abs(dy))
  IN  \A k \in 1..(n - 1) :
        At(board, <<from[1] + k * Sign(dx), from[2] + k * Sign(dy)>>) = "."

PawnMoves(board, color, from, to) ==
  LET dir == IF color = "w" THEN 1 ELSE 0 - 1
      startRank == IF color = "w" THEN 2 ELSE 7
      dx == to[1] - from[1]
      dy == to[2] - from[2]
  IN  \/ dx = 0 /\ dy = dir /\ At(board, to) = "."
      \/ /\ dx = 0 /\ dy = 2 * dir /\ from[2] = startRank
         /\ At(board, to) = "." /\ At(board, <<from[1], from[2] + dir>>) = "."
      \/ Abs(dx) = 1 /\ dy = dir /\ At(board, to) # "."

PieceMoves(board, from, to) ==
  LET p == At(board, from)
      t == Lower(p)
      adx == Abs(to[1] - from[1])
      ady == Abs(to[2] - from[2])
  IN  CASE t = "p" -> PawnMoves(board, ColorOf(p), from, to)
        [] t = "n" -> {adx, ady} = {1, 2}
        [] t = "k" -> Max(adx, ady) = 1
        [] t = "b" -> adx = ady /\ PathClear(board, from, to)
        [] t = "r" -> (adx = 0 \/ ady = 0) /\ PathClear(board, from, to)
        [] t = "q" -> (adx = ady \/ adx = 0 \/ ady = 0) /\ PathClear(board, from, to)
        [] OTHER -> FALSE

IsLastRank(sq) == sq[2] \in {1, 8}

\* chess.move({from, to, promotion}): the position after it, or NoFen when the
\* oracle throws.  A promoting pawn needs a promotion piece; on any other move
\* the promotion field is ignored.
ChessMove(fen, from, to, promotion) ==
  LET p == At(fen.board, from)
      promotes == Lower(p) = "p" /\ IsLastRank(to)
      legal == /\ from # to
               /\ ColorOf(p) = fen.turn
               /\ ColorOf(At(fen.board, to)) # fen.turn
               /\ Lower(At(fen.board, to)) # "k"
               /\ PieceMoves(fen.board, from, to)
               /\ promotes => promotion \in {"q", "r", "b", "n"}
      placed == IF promotes
                  THEN (IF fen.turn = "w" THEN Upper(promotion) ELSE promotion)
                  ELSE p
  IN  IF ~legal THEN NoFen
      ELSE [board |-> [fen.board EXCEPT ![Idx(from)] = ".", ![Idx(to)] = placed],
            turn |-> IF fen.turn = "w" THEN "b" ELSE "w"]

\* A king capture that leaves the attacker on its origin, on which C30 fails
KingCaptureFen_copied(fen, from, to) ==
  [fen EXCEPT !.board = [fen.board EXCEPT ![Idx(to)] = At(fen.board, from)]]

\* chess.remove(to); chess.remove(from); chess.put(attacker, to)
KingCaptureFen(fen, from, to) ==
  [fen EXCEPT !.board = [fen.board EXCEPT ![Idx(to)] = At(fen.board, from),
                                          ![Idx(from)] =
                                             IF from = to THEN At(fen.board, from)
                                             ELSE "."]]

NoMove == [from |-> NoSquare, to |-> NoSquare, promotion |-> ""]
NoResult == [newFen |-> NoFen, cost |-> 0, moveRecord |-> NoMove, error |-> ""]

\* A validateAndApplyMove that hands the stored side to move to the oracle, on
\* which C31 fails
validateAndApplyMove_storedTurn(game, uid, from, to, promotion, capturingKing, preset) ==
  LET piece == At(game.fen.board, from)
      isPromotion == Lower(piece) = "p" /\ IsLastRank(to)
      promotionPiece == IF promotion # NULL THEN Lower(promotion)
                        ELSE IF isPromotion THEN "q" ELSE NULL
      newFen == IF capturingKing THEN KingCaptureFen(game.fen, from, to)
                ELSE ChessMove(game.fen, from, to, promotionPiece)
      cost == calculateCost(preset, game.costModeName, Lower(piece), from, to,
                            capturingKing)
  IN  IF piece = "." THEN [NoResult EXCEPT !.error = "invalid-argument"]
      ELSE IF newFen = NoFen THEN [NoResult EXCEPT !.error = "invalid-argument"]
      ELSE [newFen |-> newFen, cost |-> cost,
            moveRecord |-> [from |-> from, to |-> to,
                            promotion |-> IF promotion = NULL THEN "" ELSE promotion],
            error |-> ""]

\* validateAndApplyMove: {newFen, cost, moveRecord}, or the HttpsError it throws.
\* promotion is NULL when the client sent none.
validateAndApplyMove(game, uid, from, to, promotion, capturingKing, preset) ==
  LET piece == At(game.fen.board, from)
      playerColor == IF uid = game.whitePlayerId THEN "w" ELSE "b"
      aligned == [game.fen EXCEPT !.turn = playerColor]
      isPromotion == Lower(piece) = "p" /\ IsLastRank(to)
      promotionPiece == IF promotion # NULL THEN Lower(promotion)
                        ELSE IF isPromotion THEN "q" ELSE NULL
      newFen == IF capturingKing THEN KingCaptureFen(game.fen, from, to)
                ELSE ChessMove(aligned, from, to, promotionPiece)
      cost == calculateCost(preset, game.costModeName, Lower(piece), from, to,
                            capturingKing)
  IN  IF piece = "." THEN [NoResult EXCEPT !.error = "invalid-argument"]
      ELSE IF newFen = NoFen THEN [NoResult EXCEPT !.error = "invalid-argument"]
      ELSE [newFen |-> newFen, cost |-> cost,
            moveRecord |-> [from |-> from, to |-> to,
                            promotion |-> IF promotion = NULL THEN "" ELSE promotion],
            error |-> ""]

\* ------------------------------------------------------------ game record
NoGame ==
  [id |-> 0, whitePlayerId |-> NULL, blackPlayerId |-> NULL, fen |-> NoFen,
   moveHistory |-> <<>>, status |-> "none", presetName |-> "",
   costModeName |-> "", outcome |-> NULL, winnerId |-> NULL]

OnlineGame(gameId, white, black, status, presetName, costModeName) ==
  [id |-> gameId, whitePlayerId |-> white, blackPlayerId |-> black,
   fen |-> INITIAL_FEN, moveHistory |-> <<>>, status |-> status,
   presetName |-> presetName, costModeName |-> costModeName,
   outcome |-> NULL, winnerId |-> NULL]

\* ------------------------------------------------------------------ state
VARIABLES
  rtGames,          \* RTDB /games/{gameId}
  fsGames,          \* Firestore games/{gameId}
  steps,            \* RTDB /games/{gameId}/steps/{uid}/balance
  userActiveGame,   \* RTDB /userActiveGame/{uid}
  queue,            \* RTDB /queue/{uid}/joinedAt
  matches,          \* RTDB /matches/{uid}/gameId
  leaderboard,      \* Firestore leaderboard/{uid}
  calls,            \* the callable invocations and their local variables
  runs,             \* the matchmakingOnQueueWrite invocations
  fsEvents,         \* Firestore document-updated events not yet delivered (a bag)
  nextGameId,       \* ids handed out by ref('games').push()
  clock,            \* ServerValue.TIMESTAMP
  isEmulator,       \* process.env.FUNCTIONS_EMULATOR === 'true'
  config,           \* what getConfigAsync() resolves to: the preset tables
  scored            \* history: per game, how often applyGameResult counted it

vars == <<rtGames, fsGames, steps, userActiveGame, queue, matches, leaderboard,
          calls, runs, fsEvents, nextGameId, clock, isEmulator, config,
          scored>>

storeVars == <<rtGames, fsGames, steps, userActiveGame, queue, matches,
               leaderboard>>

NoCall ==
  [op |-> "none", pc |-> "idle", uid |-> NULL, gameId |-> 0,
   presetName |-> "", costModeName |-> "",
   from |-> NoSquare, to |-> NoSquare, promotion |-> "", capturingKing |-> FALSE,
   outcome |-> "", delta |-> 0,
   game |-> NoGame, balance |-> 0, newFen |-> NoFen, cost |-> 0,
   moveRecord |-> NoMove, todo |-> {}, done |-> {}, failed |-> FALSE,
   error |-> "", newBalance |-> 0]

NoRun ==
  [pc |-> "idle", entries |-> <<>>, gameId |-> 0, game |-> NoGame,
   todo |-> {}, failed |-> FALSE]

EmptyStats ==
  [wins |-> 0, losses |-> 0, draws |-> 0, totalStepsSpent |-> 0,
   totalMovesPlayed |-> 0]

EmptyStore ==
  /\ rtGames = [g \in GameIds |-> NoGame]
  /\ fsGames = [g \in GameIds |-> NoGame]
  /\ steps = [g \in GameIds |-> [u \in Players |-> 0]]
  /\ userActiveGame = [u \in Players |-> 0]
  /\ queue = [u \in Players |-> 0]
  /\ matches = [u \in Players |-> 0]
  /\ leaderboard = [u \in Players |-> EmptyStats]

NoProcesses ==
  /\ calls = [c \in CallIds |-> NoCall]
  /\ runs = [r \in RunIds |-> NoRun]
  /\ fsEvents = EmptyBag

\* -------------------------------------------------------- call bookkeeping
\* A call slot is taken in order, so that two slots never differ only by name.
CanInvoke(c) ==
  /\ calls[c].pc = "idle"
  /\ IF c = 1 THEN TRUE ELSE calls[c - 1].pc # "idle"

\* A call that has returned keeps its arguments and its result; the snapshot of
\* the game it worked on is gone with the handler.
Fail(call, code) == [call EXCEPT !.pc = "done", !.error = code, !.game = NoGame]

Succeed(call) == [call EXCEPT !.pc = "done", !.error = "", !.game = NoGame]

\* Promise.all over store writes: the writes are started together and land one
\* by one in any order; the handler returns once none is left.
AfterWrite(call, w) ==
  LET left == call.todo \ {w}
      c1 == [call EXCEPT !.todo = left, !.done = @ \cup {w}]
  IN  IF left # {} THEN c1
      ELSE IF c1.failed THEN Fail(c1, "internal") ELSE Succeed(c1)

AfterFailedWrite(call, w) ==
  LET left == call.todo \ {w}
      c1 == [call EXCEPT !.todo = left, !.failed = TRUE]
  IN  IF left # {} THEN c1 ELSE Fail(c1, "internal")

\* The snapshot a handler keeps of a game it read; no handler reads the fen of
\* its snapshot after the step that took it.
Locals(game) == [game EXCEPT !.fen = NoFen]

\* A Firestore update delivers a document-updated event when the document changed.
FsUpdated(before, after) ==
  IF before = after THEN fsEvents
  ELSE fsEvents (+) SetToBag({[beforeStatus |-> before.status, after |-> after]})

\* ------------------------------------------------------------- createGame
\* A guard that lets every caller through, on which C22 fails
assertNoActiveGame_open(uid) == TRUE

\* assertNoActiveGame: the read of /userActiveGame/{uid}
assertNoActiveGame(uid) == userActiveGame[uid] = 0

\* createGame up to its first await chain: argument checks, then assertNoActiveGame,
\* then push() names the game.
createGame(c, uid, presetName, costModeName) ==
  /\ CanInvoke(c)
  /\ LET call == [NoCall EXCEPT !.op = "createGame", !.uid = uid,
                                !.presetName = presetName,
                                !.costModeName = costModeName]
     IN  IF "" \in {presetName, costModeName}
           THEN /\ calls' = [calls EXCEPT ![c] = Fail(call, "invalid-argument")]
                /\ UNCHANGED nextGameId
         ELSE IF presetName \notin KNOWN_PRESET_NAMES
           THEN /\ calls' = [calls EXCEPT ![c] = Fail(call, "invalid-argument")]
                /\ UNCHANGED nextGameId
         ELSE IF ~assertNoActiveGame(uid)
           THEN /\ calls' = [calls EXCEPT ![c] = Fail(call, "failed-precondition")]
                /\ UNCHANGED nextGameId
         ELSE /\ nextGameId \in GameIds
              /\ calls' = [calls EXCEPT ![c] =
                   [call EXCEPT !.pc = "createGameRecord",
                                !.gameId = nextGameId,
                                !.game = OnlineGame(nextGameId, uid, NULL, "waiting",
                                                    presetName, costModeName),
                                !.todo = {"rtdb", "firestore", "userActiveGame"}]]
              /\ nextGameId' = nextGameId + 1
  /\ UNCHANGED <<storeVars, runs, fsEvents, clock, isEmulator, config, scored>>

\* A createGameRecord that never records the creator's active game, on which
\* C21 fails
createGameRecord_noPointer(c) ==
  /\ calls[c].pc = "createGameRecord"
  /\ \E w \in calls[c].todo :
       /\ rtGames' = IF w = "rtdb"
                       THEN [rtGames EXCEPT ![calls[c].gameId] = calls[c].game]
                       ELSE rtGames
       /\ fsGames' = IF w = "firestore"
                       THEN [fsGames EXCEPT ![calls[c].gameId] = calls[c].game]
                       ELSE fsGames
       /\ calls' = [calls EXCEPT ![c] = AfterWrite(calls[c], w)]
  /\ UNCHANGED <<steps, userActiveGame, queue, matches, leaderboard, runs, fsEvents,
                 nextGameId, clock, isEmulator, config, scored>>

\* createGameRecord: one of its three writes lands.
createGameRecord(c) ==
  /\ calls[c].pc = "createGameRecord"
  /\ \E w \in calls[c].todo :
       /\ rtGames' = IF w = "rtdb"
                       THEN [rtGames EXCEPT ![calls[c].gameId] = calls[c].game]
                       ELSE rtGames
       /\ fsGames' = IF w = "firestore"
                       THEN [fsGames EXCEPT ![calls[c].gameId] = calls[c].game]
                       ELSE fsGames
       /\ userActiveGame' = IF w = "userActiveGame"
                       THEN [userActiveGame EXCEPT ![calls[c].uid] = calls[c].gameId]
                       ELSE userActiveGame
       /\ calls' = [calls EXCEPT ![c] = AfterWrite(calls[c], w)]
  /\ UNCHANGED <<steps, queue, matches, leaderboard, runs, fsEvents, nextGameId,
                 clock, isEmulator, config, scored>>

\* --------------------------------------------------------------- joinGame
\* updateGameState's two writes: update() merges the fields into the stored node.
ApplyUpdate(game, updates) ==
  [f \in DOMAIN game |-> IF f \in DOMAIN updates THEN updates[f] ELSE game[f]]

\* Firestore's update() is rejected when the document does not exist (RTDB's
\* update() writes the fields all the same).
MissingDoc(g) == fsGames[g].status = "none"

\* joinGame up to assertNoActiveGame: getGame and the checks on the snapshot.
joinGame(c, uid, gameId) ==
  /\ CanInvoke(c)
  /\ LET call == [NoCall EXCEPT !.op = "joinGame", !.uid = uid, !.gameId = gameId]
         game == rtGames[gameId]
     IN  calls' = [calls EXCEPT ![c] =
           IF game.status = "none" THEN Fail(call, "not-found")
           ELSE IF ~(game.blackPlayerId = NULL /\ game.status = "waiting")
             THEN Fail(call, "failed-precondition")
           ELSE IF ~isEmulator /\ game.whitePlayerId = uid
             THEN Fail(call, "failed-precondition")
           ELSE IF (~isEmulator) \/ game.whitePlayerId # uid
             THEN [call EXCEPT !.pc = "joinGame_assert", !.game = Locals(game)]
           ELSE [call EXCEPT !.pc = "joinGame_write", !.game = Locals(game),
                             !.todo = {"rtdb", "firestore", "userActiveGame"}]]
  /\ UNCHANGED <<storeVars, runs, fsEvents, nextGameId, clock, isEmulator, config, scored>>

\* joinGame's assertNoActiveGame(uid)
joinGame_assert(c) ==
  /\ calls[c].pc = "joinGame_assert"
  /\ calls' = [calls EXCEPT ![c] =
       IF ~assertNoActiveGame(calls[c].uid) THEN Fail(calls[c], "failed-precondition")
       ELSE [calls[c] EXCEPT !.pc = "joinGame_write",
                             !.todo = {"rtdb", "firestore", "userActiveGame"}]]
  /\ UNCHANGED <<storeVars, runs, fsEvents, nextGameId, clock, isEmulator, config, scored>>

\* Promise.all([updateGameState(gameId, updates), setUserActiveGame(uid, gameId)])
joinGame_write(c) ==
  /\ calls[c].pc = "joinGame_write"
  /\ \E w \in calls[c].todo :
       LET g == calls[c].gameId
           updates == [blackPlayerId |-> calls[c].uid, status |-> "active"]
           missing == w = "firestore" /\ MissingDoc(g)
       IN  /\ rtGames' = IF w = "rtdb"
                           THEN [rtGames EXCEPT ![g] = ApplyUpdate(@, updates)]
                           ELSE rtGames
           /\ fsGames' = IF w = "firestore" /\ ~missing
                           THEN [fsGames EXCEPT ![g] = ApplyUpdate(@, updates)]
                           ELSE fsGames
           /\ fsEvents' = IF w = "firestore" /\ ~missing
                           THEN FsUpdated(fsGames[g], ApplyUpdate(fsGames[g], updates))
                           ELSE fsEvents
           /\ userActiveGame' = IF w = "userActiveGame"
                           THEN [userActiveGame EXCEPT ![calls[c].uid] = g]
                           ELSE userActiveGame
           /\ calls' = [calls EXCEPT ![c] = IF missing THEN AfterFailedWrite(calls[c], w)
                                            ELSE AfterWrite(calls[c], w)]
  /\ UNCHANGED <<steps, queue, matches, leaderboard, runs, nextGameId, clock,
                 isEmulator, config, scored>>

\* ---------------------------------------------------------------- endGame
Outcomes == {"win", "draw", "abandoned"}

\* An endGame that anyone may call, on which C25 fails
endGame_anyone(c, uid, gameId, outcome) ==
  /\ CanInvoke(c)
  /\ LET call == [NoCall EXCEPT !.op = "endGame", !.uid = uid, !.gameId = gameId,
                                !.outcome = outcome]
         game == rtGames[gameId]
     IN  calls' = [calls EXCEPT ![c] =
           IF game.status = "none" THEN Fail(call, "not-found")
           ELSE [call EXCEPT !.pc = "endGame_write", !.game = Locals(game),
                             !.todo = {"rtdb", "firestore", "clearUserActiveGames"}]]
  /\ UNCHANGED <<storeVars, runs, fsEvents, nextGameId, clock, isEmulator, config, scored>>

\* endGame up to its writes: getGame and the player check.
endGame(c, uid, gameId, outcome) ==
  /\ CanInvoke(c)
  /\ LET call == [NoCall EXCEPT !.op = "endGame", !.uid = uid, !.gameId = gameId,
                                !.outcome = outcome]
         game == rtGames[gameId]
     IN  calls' = [calls EXCEPT ![c] =
           IF game.status = "none" THEN Fail(call, "not-found")
           ELSE IF uid # game.whitePlayerId /\ uid # game.blackPlayerId
             THEN Fail(call, "permission-denied")
           ELSE [call EXCEPT !.pc = "endGame_write", !.game = Locals(game),
                             !.todo = {"rtdb", "firestore", "clearUserActiveGames"}]]
  /\ UNCHANGED <<storeVars, runs, fsEvents, nextGameId, clock, isEmulator, config, scored>>

\* A final status that is completed for every outcome, on which C24 fails
finalStatus_completed(outcome) == "completed"

finalStatus(outcome) == IF outcome = "abandoned" THEN "abandoned" ELSE "completed"

gameUpdate(uid, outcome) ==
  IF outcome = "win"
    THEN [status |-> finalStatus(outcome), outcome |-> outcome, winnerId |-> uid]
    ELSE [status |-> finalStatus(outcome), outcome |-> outcome]

uidsToClean(game) ==
  {game.whitePlayerId} \cup
    (IF game.blackPlayerId # NULL THEN {game.blackPlayerId} ELSE {})

\* Promise.all([updateGameState(gameId, gameUpdate), clearUserActiveGames(uidsToClean)])
endGame_write(c) ==
  /\ calls[c].pc = "endGame_write"
  /\ \E w \in calls[c].todo :
       LET g == calls[c].gameId
           updates == gameUpdate(calls[c].uid, calls[c].outcome)
           missing == w = "firestore" /\ MissingDoc(g)
       IN  /\ rtGames' = IF w = "rtdb"
                           THEN [rtGames EXCEPT ![g] = ApplyUpdate(@, updates)]
                           ELSE rtGames
           /\ fsGames' = IF w = "firestore" /\ ~missing
                           THEN [fsGames EXCEPT ![g] = ApplyUpdate(@, updates)]
                           ELSE fsGames
           /\ fsEvents' = IF w = "firestore" /\ ~missing
                           THEN FsUpdated(fsGames[g], ApplyUpdate(fsGames[g], updates))
                           ELSE fsEvents
           /\ userActiveGame' = IF w = "clearUserActiveGames"
                           THEN [u \in Players |->
                                   IF u \in uidsToClean(calls[c].game) THEN 0
                                   ELSE userActiveGame[u]]
                           ELSE userActiveGame
           /\ calls' = [calls EXCEPT ![c] = IF missing THEN AfterFailedWrite(calls[c], w)
                                            ELSE AfterWrite(calls[c], w)]
  /\ UNCHANGED <<steps, queue, matches, leaderboard, runs, nextGameId, clock,
                 isEmulator, config, scored>>

\* ------------------------------------------------------------ leaderboard
incrementWin(lb, uid) == [lb EXCEPT ![uid].wins = @ + 1]
incrementLoss(lb, uid) == [lb EXCEPT ![uid].losses = @ + 1]
incrementDraw(lb, uid) == [lb EXCEPT ![uid].draws = @ + 1]

\* An applyGameResult that records no loss, on which C27 fails
applyGameResult_winnerOnly(lb, game) ==
  IF game.blackPlayerId = NULL \/ game.outcome = "abandoned" \/ game.outcome = NULL
    THEN lb
  ELSE IF game.outcome = "win" /\ game.winnerId # NULL
    THEN incrementWin(lb, game.winnerId)
  ELSE IF game.outcome = "draw"
    THEN incrementDraw(incrementDraw(lb, game.whitePlayerId), game.blackPlayerId)
  ELSE lb

\* applyGameResult(game): the leaderboard after it
applyGameResult(lb, game) ==
  IF game.blackPlayerId = NULL \/ game.outcome = "abandoned" \/ game.outcome = NULL
    THEN lb
  ELSE IF game.outcome = "win" /\ game.winnerId # NULL
    THEN LET loserId == IF game.winnerId = game.whitePlayerId
                          THEN game.blackPlayerId ELSE game.whitePlayerId
         IN  incrementLoss(incrementWin(lb, game.winnerId), loserId)
  ELSE IF game.outcome = "draw"
    THEN incrementDraw(incrementDraw(lb, game.whitePlayerId), game.blackPlayerId)
  ELSE lb

\* A reaction to every update that leaves the game completed, on which C26 fails
onGameCompleted_everyUpdate(event) ==
  /\ BagIn(event, fsEvents)
  /\ LET after == event.after
         acts == after.status = "completed"
         lb == IF acts THEN applyGameResult(leaderboard, after) ELSE leaderboard
     IN  /\ leaderboard' = lb
         /\ scored' = IF lb # leaderboard
                        THEN [scored EXCEPT ![after.id] = @ + 1] ELSE scored
  /\ fsEvents' = fsEvents (-) SetToBag({event})
  /\ UNCHANGED <<rtGames, fsGames, steps, userActiveGame, queue, matches, calls,
                 runs, nextGameId, clock, isEmulator, config>>

\* onGameCompleted: the handler of one delivered document-updated event
onGameCompleted(event) ==
  /\ BagIn(event, fsEvents)
  /\ LET before == event.beforeStatus
         after == event.after
         acts == ~(before = after.status \/ after.status # "completed")
         lb == IF acts THEN applyGameResult(leaderboard, after) ELSE leaderboard
     IN  /\ leaderboard' = lb
         /\ scored' = IF lb # leaderboard
                        THEN [scored EXCEPT ![after.id] = @ + 1] ELSE scored
  /\ fsEvents' = fsEvents (-) SetToBag({event})
  /\ UNCHANGED <<rtGames, fsGames, steps, userActiveGame, queue, matches, calls,
                 runs, nextGameId, clock, isEmulator, config>>

\* --------------------------------------------------------------- makeMove
getPreset(cfg, name) == cfg[name]

\* makeMove up to getStepBalance: getGame, the status and player checks,
\* getPreset and validateAndApplyMove on the snapshot.
makeMove(c, uid, gameId, from, to, promotion, capturingKing) ==
  /\ CanInvoke(c)
  /\ LET call == [NoCall EXCEPT !.op = "makeMove", !.uid = uid, !.gameId = gameId,
                                !.from = from, !.to = to,
                                !.promotion = promotion,
                                !.capturingKing = capturingKing]
         game == rtGames[gameId]
         res == validateAndApplyMove(game, uid, from, to, promotion, capturingKing,
                                     getPreset(config, game.presetName))
     IN  calls' = [calls EXCEPT ![c] =
           IF game.status = "none" THEN Fail(call, "not-found")
           ELSE IF game.status # "active" THEN Fail(call, "failed-precondition")
           ELSE IF uid # game.whitePlayerId /\ uid # game.blackPlayerId
             THEN Fail(call, "permission-denied")
           ELSE IF res.error # "" THEN Fail(call, res.error)
           ELSE [call EXCEPT !.pc = "makeMove_getBalance", !.game = Locals(game),
                             !.newFen = res.newFen, !.cost = res.cost,
                             !.moveRecord = res.moveRecord]]
  /\ UNCHANGED <<storeVars, runs, fsEvents, nextGameId, clock, isEmulator, config,
                 scored>>

getStepBalance(gameId, uid) == steps[gameId][uid]

\* A balance check against zero instead of the cost, on which C11 fails
Insufficient_belowZero(balance, cost) == cost # UNDEFINED /\ balance < 0

\* A makeMove without the balance check, on which C7 fails
Insufficient_unchecked(balance, cost) == FALSE

\* balance < cost, which is false when cost is undefined
Insufficient(balance, cost) == cost # UNDEFINED /\ balance < cost

\* makeMove's getStepBalance and the balance check
makeMove_getBalance(c) ==
  /\ calls[c].pc = "makeMove_getBalance"
  /\ LET balance == getStepBalance(calls[c].gameId, calls[c].uid)
     IN  calls' = [calls EXCEPT ![c] =
           IF Insufficient(balance, calls[c].cost)
             THEN Fail([calls[c] EXCEPT !.balance = balance], "failed-precondition")
           ELSE [calls[c] EXCEPT !.pc = "makeMove_write", !.balance = balance,
                                 !.newBalance = IF calls[c].cost = UNDEFINED
                                                  THEN UNDEFINED
                                                  ELSE balance - calls[c].cost,
                                 !.todo = {"updateGameMove", "setStepBalance"}]]
  /\ UNCHANGED <<storeVars, runs, fsEvents, nextGameId, clock, isEmulator, config,
                 scored>>

updateGameMove(game, fen, moveHistory) ==
  ApplyUpdate(game, [fen |-> fen, moveHistory |-> moveHistory])

setStepBalance(gameId, uid, balance) == [steps EXCEPT ![gameId][uid] = balance]

\* Promise.all([updateGameMove(gameId, newFen, newMoveHistory),
\*              setStepBalance(gameId, uid, newBalance)]): one of the two lands.
\* set(NaN) is refused by the database client: that write fails.
makeMove_write(c) ==
  /\ calls[c].pc = "makeMove_write"
  /\ \E w \in calls[c].todo :
       LET g == calls[c].gameId
           newMoveHistory == Append(calls[c].game.moveHistory, calls[c].moveRecord)
           refused == w = "setStepBalance" /\ calls[c].newBalance = UNDEFINED
       IN  /\ rtGames' = IF w = "updateGameMove"
                           THEN [rtGames EXCEPT ![g] =
                                   updateGameMove(@, calls[c].newFen, newMoveHistory)]
                           ELSE rtGames
           /\ steps' = IF w = "setStepBalance" /\ ~refused
                         THEN setStepBalance(g, calls[c].uid, calls[c].newBalance)
                         ELSE steps
           /\ calls' = [calls EXCEPT ![c] =
                          IF refused THEN AfterFailedWrite(calls[c], w)
                          ELSE AfterWrite(calls[c], w)]
  /\ UNCHANGED <<fsGames, userActiveGame, queue, matches, leaderboard, runs,
                 fsEvents, nextGameId, clock, isEmulator, config, scored>>

\* -------------------------------------------------------- submitStepDelta
\* A submitStepDelta without the per-call cap, on which C23 fails
submitStepDelta_uncapped(c, uid, gameId, delta) ==
  /\ CanInvoke(c)
  /\ LET call == [NoCall EXCEPT !.op = "submitStepDelta", !.uid = uid,
                                !.gameId = gameId, !.delta = delta]
         game == rtGames[gameId]
     IN  calls' = [calls EXCEPT ![c] =
           IF delta <= 0 THEN Fail(call, "invalid-argument")
           ELSE IF game.status = "none" THEN Fail(call, "not-found")
           ELSE IF uid # game.whitePlayerId /\ uid # game.blackPlayerId
             THEN Fail(call, "permission-denied")
           ELSE IF game.status # "active" THEN Fail(call, "failed-precondition")
           ELSE [call EXCEPT !.pc = "atomicIncrementStepBalance",
                             !.game = Locals(game)]]
  /\ UNCHANGED <<storeVars, runs, fsEvents, nextGameId, clock, isEmulator, config,
                 scored>>

\* submitStepDelta up to the increment: the delta check, the read of the game,
\* the player and status checks, the per-call cap.
submitStepDelta(c, uid, gameId, delta) ==
  /\ CanInvoke(c)
  /\ LET call == [NoCall EXCEPT !.op = "submitStepDelta", !.uid = uid,
                                !.gameId = gameId, !.delta = delta]
         game == rtGames[gameId]
     IN  calls' = [calls EXCEPT ![c] =
           IF delta <= 0 THEN Fail(call, "invalid-argument")
           ELSE IF game.status = "none" THEN Fail(call, "not-found")
           ELSE IF uid # game.whitePlayerId /\ uid # game.blackPlayerId
             THEN Fail(call, "permission-denied")
           ELSE IF game.status # "active" THEN Fail(call, "failed-precondition")
           ELSE IF delta > MAX_STEP_DELTA_PER_CALL THEN Fail(call, "invalid-argument")
           ELSE [call EXCEPT !.pc = "atomicIncrementStepBalance",
                             !.game = Locals(game)]]
  /\ UNCHANGED <<storeVars, runs, fsEvents, nextGameId, clock, isEmulator, config,
                 scored>>

\* An increment whose update ignores the current value, on which C9 fails
atomicIncrementStepBalance_blind(c) ==
  /\ calls[c].pc = "atomicIncrementStepBalance"
  /\ LET g == calls[c].gameId
         u == calls[c].uid
         committed == calls[c].balance + calls[c].delta
     IN  /\ steps' = [steps EXCEPT ![g][u] = committed]
         /\ calls' = [calls EXCEPT ![c] =
                        Succeed([calls[c] EXCEPT !.newBalance = committed])]
  /\ UNCHANGED <<rtGames, fsGames, userActiveGame, queue, matches, leaderboard,
                 runs, fsEvents, nextGameId, clock, isEmulator, config, scored>>

\* atomicIncrementStepBalance: ref.transaction(current => (current ?? 0) + delta),
\* one atomic read-modify-write; the call returns the committed value.
atomicIncrementStepBalance(c) ==
  /\ calls[c].pc = "atomicIncrementStepBalance"
  /\ LET g == calls[c].gameId
         u == calls[c].uid
         committed == steps[g][u] + calls[c].delta
     IN  /\ steps' = [steps EXCEPT ![g][u] = committed]
         /\ calls' = [calls EXCEPT ![c] =
                        Succeed([calls[c] EXCEPT !.newBalance = committed])]
  /\ UNCHANGED <<rtGames, fsGames, userActiveGame, queue, matches, leaderboard,
                 runs, fsEvents, nextGameId, clock, isEmulator, config, scored>>

\* ------------------------------------------------------------ store faults
\* One of a handler's pending store writes is rejected (the store is
\* unavailable): the write never lands and Promise.all rejects.
StoreWriteFails(c) ==
  /\ calls[c].todo # {}
  /\ \E w \in calls[c].todo :
       calls' = [calls EXCEPT ![c] = AfterFailedWrite(calls[c], w)]
  /\ UNCHANGED <<storeVars, runs, fsEvents, nextGameId, clock, isEmulator, config,
                 scored>>

\* ------------------------------------------------------------ matchmaking
\* A queue read in key order instead of joinedAt order, on which C17 fails
Before_byKey(u, v) ==
  (CASE u = "u1" -> 1 [] u = "u2" -> 2 [] OTHER -> 3)
    < (CASE v = "u1" -> 1 [] v = "u2" -> 2 [] OTHER -> 3)

\* The key order of /queue's children, which breaks ties of joinedAt
KeyOrder(u) == CASE u = "u1" -> 1 [] u = "u2" -> 2 [] OTHER -> 3

Queued == {u \in DOMAIN queue : queue[u] # 0}

Before(u, v) ==
  queue[u] < queue[v] \/ (queue[u] = queue[v] /\ KeyOrder(u) < KeyOrder(v))

\* db.ref('queue').orderByChild('joinedAt').get(), as the array `entries`
RECURSIVE Sorted(_)
Sorted(us) ==
  IF us = {} THEN <<>>
  ELSE LET first == CHOOSE u \in us : \A v \in us \ {u} : Before(u, v)
       IN  <<[userId |-> first, joinedAt |-> queue[first]]>> \o Sorted(us \ {first})

\* A client enters the queue: it writes { joinedAt: ServerValue.TIMESTAMP } to
\* /queue/{uid}.  The entry is new, so onValueCreated starts a pairing run.
EnterQueue(r, u) ==
  /\ runs[r].pc = "idle"
  /\ IF r = 1 THEN TRUE ELSE runs[r - 1].pc # "idle"
  /\ queue[u] = 0
  /\ queue' = [queue EXCEPT ![u] = clock]
  /\ clock' = clock + 1
  /\ runs' = [runs EXCEPT ![r].pc = "snapshot"]
  /\ UNCHANGED <<rtGames, fsGames, steps, userActiveGame, matches, leaderboard,
                 calls, fsEvents, nextGameId, isEmulator, config, scored>>

\* A run that notifies the first player only, on which C18 fails
MatchWrites_oneNotified ==
  <<"rtdb", "firestore", "matches1", "queue1", "queue2",
    "userActiveGame1", "userActiveGame2">>

\* The writes of the run's Promise.all, in the order the handler issues them.
MatchWrites ==
  <<"rtdb", "firestore", "matches1", "matches2", "queue1", "queue2",
    "userActiveGame1", "userActiveGame2">>

Range(seq) == {seq[i] : i \in DOMAIN seq}

\* The seven RTDB writes go out on the instance's one database connection,
\* which applies them in the order issued; the Firestore write lands at any
\* point among them.
MatchWriteReady(todo, w) ==
  /\ w \in todo
  /\ IF w = "firestore" THEN TRUE
     ELSE \A i, j \in DOMAIN MatchWrites :
            (MatchWrites[j] = w /\ i < j /\ MatchWrites[i] # "firestore")
              => MatchWrites[i] \notin todo

\* matchmakingOnQueueWrite up to its writes: the queue snapshot, the length
\* check, the two oldest entries and the game object.
matchmakingOnQueueWrite(r) ==
  /\ runs[r].pc = "snapshot"
  /\ LET entries == Sorted(Queued)
     IN  IF Len(entries) < 2
           THEN /\ runs' = [runs EXCEPT ![r].pc = "done"]
                /\ UNCHANGED nextGameId
           ELSE /\ nextGameId \in DOMAIN rtGames
                /\ runs' = [runs EXCEPT ![r] =
                     [pc |-> "write", entries |-> SubSeq(entries, 1, 2),
                      gameId |-> nextGameId,
                      game |-> OnlineGame(nextGameId, entries[1].userId,
                                          entries[2].userId,
                                          "active", "Normal", "distance"),
                      todo |-> Range(MatchWrites), failed |-> FALSE]]
                /\ nextGameId' = nextGameId + 1
  /\ UNCHANGED <<storeVars, calls, fsEvents, clock, isEmulator, config, scored>>

\* One of the eight writes of the run's Promise.all lands.
matchmaking_write(r) ==
  /\ runs[r].pc = "write"
  /\ \E w \in {x \in runs[r].todo : MatchWriteReady(runs[r].todo, x)} :
       LET g == runs[r].gameId
           player1 == runs[r].entries[1].userId
           player2 == runs[r].entries[2].userId
           left == runs[r].todo \ {w}
       IN  /\ rtGames' = IF w = "rtdb" THEN [rtGames EXCEPT ![g] = runs[r].game]
                         ELSE rtGames
           /\ fsGames' = IF w = "firestore" THEN [fsGames EXCEPT ![g] = runs[r].game]
                         ELSE fsGames
           /\ matches' = CASE w = "matches1" -> [matches EXCEPT ![player1] = g]
                           [] w = "matches2" -> [matches EXCEPT ![player2] = g]
                           [] OTHER -> matches
           /\ queue' = CASE w = "queue1" -> [queue EXCEPT ![player1] = 0]
                         [] w = "queue2" -> [queue EXCEPT ![player2] = 0]
                         [] OTHER -> queue
           /\ userActiveGame' =
                CASE w = "userActiveGame1" -> [userActiveGame EXCEPT ![player1] = g]
                  [] w = "userActiveGame2" -> [userActiveGame EXCEPT ![player2] = g]
                  [] OTHER -> userActiveGame
           /\ runs' = [runs EXCEPT ![r].todo = left,
                                   ![r].pc = IF left = {} THEN "done" ELSE "write"]
  /\ UNCHANGED <<steps, leaderboard, calls, fsEvents, nextGameId, clock,
                 isEmulator, config, scored>>

\* One of the run's writes is rejected by its store: it never lands and the
\* run's Promise.all rejects, while the other writes, already issued, go on.
RunWriteFails(r) ==
  /\ runs[r].pc = "write"
  /\ \E w \in {x \in runs[r].todo : MatchWriteReady(runs[r].todo, x)} :
       LET left == runs[r].todo \ {w}
       IN  runs' = [runs EXCEPT ![r].todo = left, ![r].failed = TRUE,
                                ![r].pc = IF left = {} THEN "done" ELSE "write"]
  /\ UNCHANGED <<storeVars, calls, fsEvents, nextGameId, clock, isEmulator, config,
                 scored>>

\* --------------------------------------------------------- specifications
\* Stores the backend can be in: empty; one waiting game created by u1; one
\* active game between u1 (white) and u2 (black).
WaitingGameStore ==
  LET game == OnlineGame(1, "u1", NULL, "waiting", "Normal", "distance")
  IN  /\ rtGames = [g \in GameIds |-> IF g = 1 THEN game ELSE NoGame]
      /\ fsGames = [g \in GameIds |-> IF g = 1 THEN game ELSE NoGame]
      /\ steps = [g \in GameIds |-> [u \in Players |-> 0]]
      /\ userActiveGame = [u \in Players |-> IF u = "u1" THEN 1 ELSE 0]
      /\ queue = [u \in Players |-> 0]
      /\ matches = [u \in Players |-> 0]
      /\ leaderboard = [u \in Players |-> EmptyStats]

ActiveGameStore ==
  LET game == OnlineGame(1, "u1", "u2", "active", "Normal", "distance")
  IN  /\ rtGames = [g \in GameIds |-> IF g = 1 THEN game ELSE NoGame]
      /\ fsGames = [g \in GameIds |-> IF g = 1 THEN game ELSE NoGame]
      /\ steps = [g \in GameIds |-> [u \in Players |-> 0]]
      /\ userActiveGame = [u \in Players |-> IF u \in {"u1", "u2"} THEN 1 ELSE 0]
      /\ queue = [u \in Players |-> 0]
      /\ matches = [u \in Players |-> 0]
      /\ leaderboard = [u \in Players |-> EmptyStats]

\* Game 1 after endGame(u1, 1, "draw") and the leaderboard trigger it caused.
DrawnGameStore ==
  LET game == [OnlineGame(1, "u1", "u2", "completed", "Normal", "distance")
                 EXCEPT !.outcome = "draw"]
  IN  /\ rtGames = [g \in GameIds |-> IF g = 1 THEN game ELSE NoGame]
      /\ fsGames = [g \in GameIds |-> IF g = 1 THEN game ELSE NoGame]
      /\ steps = [g \in GameIds |-> [u \in Players |-> 0]]
      /\ userActiveGame = [u \in Players |-> 0]
      /\ queue = [u \in Players |-> 0]
      /\ matches = [u \in Players |-> 0]
      /\ leaderboard = [u \in Players |->
            IF u \in {"u1", "u2"} THEN incrementDraw([v \in Players |-> EmptyStats], u)[u]
            ELSE EmptyStats]

NothingScored == scored = [g \in GameIds |-> 0]

Environment ==
  /\ NoProcesses
  /\ clock = 1
  /\ isEmulator = FALSE
  /\ config = DEFAULT_PRESETS

\* Spec: the lobby.  Games are created, joined and ended by up to LobbyCalls
\* concurrent calls; the leaderboard reacts to the Firestore updates.
LobbyCalls == 1..(MaxCalls - 1)

Init ==
  /\ Environment
  /\ NothingScored
  /\ \/ EmptyStore /\ nextGameId = 1
     \/ WaitingGameStore /\ nextGameId = 2
     \/ ActiveGameStore /\ nextGameId = 2

Next ==
  \/ \E c \in LobbyCalls, u \in Players : createGame(c, u, "Normal", "distance")
  \/ \E c \in LobbyCalls : createGameRecord(c)
  \/ \E c \in LobbyCalls, u \in Players, g \in GameIds : joinGame(c, u, g)
  \/ \E c \in LobbyCalls : joinGame_assert(c)
  \/ \E c \in LobbyCalls : joinGame_write(c)
  \/ \E c \in LobbyCalls, u \in Players, g \in GameIds, o \in Outcomes :
       endGame(c, u, g, o)
  \/ \E c \in LobbyCalls : endGame_write(c)
  \/ \E event \in BagToSet(fsEvents) : onGameCompleted(event)

Spec == Init /\ [][Next]_vars

\* SpecScore: the two players of game 1 end it, while it is active and after
\* it was ended and scored once.
InitScore ==
  /\ Environment
  /\ nextGameId = 2
  /\ \/ ActiveGameStore /\ NothingScored
     \/ DrawnGameStore /\ scored = [g \in GameIds |-> IF g = 1 THEN 1 ELSE 0]

NextScore ==
  \/ \E c \in LobbyCalls, u \in {"u1", "u2"}, o \in Outcomes : endGame(c, u, 1, o)
  \/ \E c \in LobbyCalls : endGame_write(c)
  \/ \E event \in BagToSet(fsEvents) : onGameCompleted(event)

SpecScore == InitScore /\ [][NextScore]_vars

\* SpecMatch: players enter the queue and every new entry starts a pairing run.
InitMatch ==
  /\ Environment
  /\ NothingScored
  /\ EmptyStore
  /\ nextGameId = 1

NextMatch ==
  \/ \E r \in RunIds, u \in Players : EnterQueue(r, u)
  \/ \E r \in RunIds : matchmakingOnQueueWrite(r)
  \/ \E r \in RunIds : matchmaking_write(r)

SpecMatch == InitMatch /\ [][NextMatch]_vars

\* SpecLedger: one active game between u1 (white) and u2 (black), as a pairing
\* run leaves it; its players earn steps and move.
e2 == <<5, 2>>
e4 == <<5, 4>>
g1 == <<7, 1>>
f3 == <<6, 3>>
e7 == <<5, 7>>
e5 == <<5, 5>>

LedgerMoves ==
  {[uid |-> "u1", from |-> e2, to |-> e4],
   [uid |-> "u1", from |-> g1, to |-> f3],
   [uid |-> "u2", from |-> e7, to |-> e5]}

LedgerDeltas == {20, 30}

InitLedger ==
  /\ Environment
  /\ NothingScored
  /\ ActiveGameStore
  /\ nextGameId = 2

NextLedger ==
  \/ \E c \in CallIds, m \in LedgerMoves :
       makeMove(c, m.uid, 1, m.from, m.to, NULL, FALSE)
  \/ \E c \in CallIds : makeMove_getBalance(c)
  \/ \E c \in CallIds : makeMove_write(c)
  \/ \E c \in CallIds, u \in {"u1", "u2"}, d \in LedgerDeltas :
       submitStepDelta(c, u, 1, d)
  \/ \E c \in CallIds : atomicIncrementStepBalance(c)

SpecLedger == InitLedger /\ [][NextLedger]_vars

\* SpecFaults: SpecLedger with store writes that may be rejected.
NextFaults ==
  \/ NextLedger
  \/ \E c \in CallIds : StoreWriteFails(c)

SpecFaults == InitLedger /\ [][NextFaults]_vars
\* SpecModes: one active game of u1 and u2 under the Quick preset, in any cost
\* mode createGame lets through; u1 earns steps and moves.
UnknownMode == "speed"

AcceptedModes == CostModes \cup {UnknownMode}

ActiveGameStoreOf(presetName, costModeName) ==
  LET game == OnlineGame(1, "u1", "u2", "active", presetName, costModeName)
  IN  /\ rtGames = [g \in GameIds |-> IF g = 1 THEN game ELSE NoGame]
      /\ fsGames = [g \in GameIds |-> IF g = 1 THEN game ELSE NoGame]
      /\ steps = [g \in GameIds |-> [u \in Players |-> 0]]
      /\ userActiveGame = [u \in Players |-> IF u \in {"u1", "u2"} THEN 1 ELSE 0]
      /\ queue = [u \in Players |-> 0]
      /\ matches = [u \in Players |-> 0]
      /\ leaderboard = [u \in Players |-> EmptyStats]

ModeMoves ==
  {[uid |-> "u1", from |-> e2, to |-> e4],
   [uid |-> "u1", from |-> g1, to |-> f3]}

ModeDeltas == {4, 5}

InitModes ==
  /\ Environment
  /\ NothingScored
  /\ nextGameId = 2
  /\ \E m \in AcceptedModes : ActiveGameStoreOf("Quick", m)

NextModes ==
  \/ \E c \in CallIds, m \in ModeMoves :
       makeMove(c, m.uid, 1, m.from, m.to, NULL, FALSE)
  \/ \E c \in CallIds : makeMove_getBalance(c)
  \/ \E c \in CallIds : makeMove_write(c)
  \/ \E c \in CallIds, d \in ModeDeltas : submitStepDelta(c, "u1", 1, d)
  \/ \E c \in CallIds : atomicIncrementStepBalance(c)

SpecModes == InitModes /\ [][NextModes]_vars

\* SpecConfig: SpecLedger with an edit of the Normal preset in Remote Config.
\* The game stores presetName only; makeMove reads the preset's values from the
\* config of the instance it runs on, and an instance started after the edit
\* loads the edited template.
EditedPresets == [DEFAULT_PRESETS EXCEPT !.Normal.distanceCost = 2 * @]

PublishConfig ==
  /\ config = DEFAULT_PRESETS
  /\ config' = EditedPresets
  /\ UNCHANGED <<storeVars, calls, runs, fsEvents, nextGameId, clock, isEmulator,
                 scored>>

NextConfig ==
  \/ NextLedger
  \/ PublishConfig

SpecConfig == InitLedger /\ [][NextConfig]_vars

\* SpecQueue: SpecMatch from the store three entries leave behind: u1 and u2
\* were paired into game 1, and u3's entry stays queued.
LeftoverQueueStore ==
  LET game == OnlineGame(1, "u1", "u2", "active", "Normal", "distance")
  IN  /\ rtGames = [g \in GameIds |-> IF g = 1 THEN game ELSE NoGame]
      /\ fsGames = [g \in GameIds |-> IF g = 1 THEN game ELSE NoGame]
      /\ steps = [g \in GameIds |-> [u \in Players |-> 0]]
      /\ userActiveGame = [u \in Players |-> IF u \in {"u1", "u2"} THEN 1 ELSE 0]
      /\ queue = [u \in Players |-> IF u = "u3" THEN 3 ELSE 0]
      /\ matches = [u \in Players |-> IF u \in {"u1", "u2"} THEN 1 ELSE 0]
      /\ leaderboard = [u \in Players |-> EmptyStats]

InitQueue ==
  /\ NoProcesses
  /\ NothingScored
  /\ isEmulator = FALSE
  /\ config = DEFAULT_PRESETS
  /\ LeftoverQueueStore
  /\ nextGameId = 2
  /\ clock = 4

SpecQueue == InitQueue /\ [][NextMatch]_vars

\* SpecMatchFaults: SpecQueue with store writes that may be rejected.
NextMatchFaults ==
  \/ NextMatch
  \/ \E r \in RunIds : RunWriteFails(r)

SpecMatchFaults == InitQueue /\ [][NextMatchFaults]_vars

\* SpecCreate: createGame called with known, unknown and empty arguments.
PresetArgs == {"Normal", "Turbo", ""}

ModeArgs == {"distance", UnknownMode, ""}

InitCreate ==
  /\ Environment
  /\ NothingScored
  /\ EmptyStore /\ nextGameId = 1

NextCreate ==
  \/ \E c \in LobbyCalls, u \in Players, presetName \in PresetArgs,
        costModeName \in ModeArgs : createGame(c, u, presetName, costModeName)
  \/ \E c \in LobbyCalls : createGameRecord(c)

SpecCreate == InitCreate /\ [][NextCreate]_vars

\* SpecCreateBeside: the same calls, with no game stored yet or beside a game
\* in play.
InitCreateBeside ==
  /\ Environment
  /\ NothingScored
  /\ \/ EmptyStore /\ nextGameId = 1
     \/ ActiveGameStore /\ nextGameId = 2

SpecCreateBeside == InitCreateBeside /\ [][NextCreate]_vars

\* SpecJoin: games are created and joined, in production and in the emulator,
\* beside a waiting game or a game in play.
InitJoin ==
  /\ NoProcesses
  /\ NothingScored
  /\ clock = 1
  /\ isEmulator \in BOOLEAN
  /\ config = DEFAULT_PRESETS
  /\ nextGameId = 2
  /\ WaitingGameStore \/ ActiveGameStore

NextJoin ==
  \/ \E c \in LobbyCalls, u \in Players : createGame(c, u, "Normal", "distance")
  \/ \E c \in LobbyCalls : createGameRecord(c)
  \/ \E c \in LobbyCalls, u \in Players, g \in GameIds : joinGame(c, u, g)
  \/ \E c \in LobbyCalls : joinGame_assert(c)
  \/ \E c \in LobbyCalls : joinGame_write(c)

SpecJoin == InitJoin /\ [][NextJoin]_vars

\* SpecEarn: steps are submitted, with deltas in and out of range, by players
\* and by a stranger, to a waiting game, a game in play, an ended game and a
\* game that does not exist.
EarnDeltas == {0 - 1, 0, 1, MAX_STEP_DELTA_PER_CALL, MAX_STEP_DELTA_PER_CALL + 1}

InitEarn ==
  /\ Environment
  /\ nextGameId = 2
  /\ \/ (WaitingGameStore \/ ActiveGameStore) /\ NothingScored
     \/ DrawnGameStore /\ scored = [g \in GameIds |-> IF g = 1 THEN 1 ELSE 0]

NextEarn ==
  \/ \E c \in LobbyCalls, u \in Players, g \in GameIds, delta \in EarnDeltas :
       submitStepDelta(c, u, g, delta)
  \/ \E c \in LobbyCalls : atomicIncrementStepBalance(c)

SpecEarn == InitEarn /\ [][NextEarn]_vars

\* SpecEnd: u1 and u2 call endGame with every outcome on game 1, which is
\* waiting (created by u1) or in play between them.
InitEnd ==
  /\ Environment
  /\ NothingScored
  /\ nextGameId = 2
  /\ WaitingGameStore \/ ActiveGameStore

NextEnd ==
  \/ \E c \in LobbyCalls, u \in {"u1", "u2"}, o \in Outcomes : endGame(c, u, 1, o)
  \/ \E c \in LobbyCalls : endGame_write(c)

SpecEnd == InitEnd /\ [][NextEnd]_vars

\* SpecStranger: the players u1 and u2 and the stranger u3 move, earn and end
\* game 1, which is waiting, in play or completed.
StrangerDeltas == {0, 20}

InitStranger ==
  /\ Environment
  /\ nextGameId = 2
  /\ \/ (WaitingGameStore \/ ActiveGameStore) /\ NothingScored
     \/ DrawnGameStore /\ scored = [g \in GameIds |-> IF g = 1 THEN 1 ELSE 0]

NextStranger ==
  \/ \E c \in LobbyCalls, u \in {"u1", "u3"} : makeMove(c, u, 1, e2, e4, NULL, FALSE)
  \/ \E c \in LobbyCalls : makeMove_getBalance(c)
  \/ \E c \in LobbyCalls : makeMove_write(c)
  \/ \E c \in LobbyCalls, u \in {"u1", "u3"}, d \in StrangerDeltas :
       submitStepDelta(c, u, 1, d)
  \/ \E c \in LobbyCalls : atomicIncrementStepBalance(c)
  \/ \E c \in LobbyCalls, u \in {"u2", "u3"} : endGame(c, u, 1, "win")
  \/ \E c \in LobbyCalls : endGame_write(c)

SpecStranger == InitStranger /\ [][NextStranger]_vars

\* SpecReact: u1 ends game 1 with any outcome, from waiting or in play, and
\* the leaderboard trigger handles the document updates this causes.
InitReact ==
  /\ Environment
  /\ NothingScored
  /\ nextGameId = 2
  /\ WaitingGameStore \/ ActiveGameStore

NextReact ==
  \/ \E c \in LobbyCalls, o \in Outcomes : endGame(c, "u1", 1, o)
  \/ \E c \in LobbyCalls : endGame_write(c)
  \/ \E event \in BagToSet(fsEvents) : onGameCompleted(event)

SpecReact == InitReact /\ [][NextReact]_vars

\* SpecTally: the same, with u1 ending the game as won or drawn and u2 as won.
NextTally ==
  \/ \E c \in LobbyCalls, o \in {"win", "draw"} : endGame(c, "u1", 1, o)
  \/ \E c \in LobbyCalls : endGame(c, "u2", 1, "win")
  \/ \E c \in LobbyCalls : endGame_write(c)
  \/ \E event \in BagToSet(fsEvents) : onGameCompleted(event)

SpecTally == InitReact /\ [][NextTally]_vars

\* SpecCost: u1 asks for every move from one square of each kind of piece, of
\* all four knights and both kings, and from an empty square, to every square,
\* with and without the king-capture flag, in a game of any preset and cost
\* mode whose eight opening moves have freed every kind of piece.
OpeningMoves ==
  << <<e2, e4>>, <<e7, e5>>, <<<<4, 2>>, <<4, 4>>>>, <<<<4, 7>>, <<4, 5>>>>,
     <<<<1, 2>>, <<1, 4>>>>, <<<<1, 7>>, <<1, 5>>>>,
     <<<<8, 2>>, <<8, 4>>>>, <<<<8, 7>>, <<8, 5>>>> >>

RECURSIVE PositionAfter(_)
PositionAfter(n) ==
  IF n = 0 THEN INITIAL_FEN
  ELSE ChessMove(PositionAfter(n - 1), OpeningMoves[n][1], OpeningMoves[n][2], NULL)

OpenGameStore(presetName, costModeName) ==
  LET game == [OnlineGame(1, "u1", "u2", "active", presetName, costModeName)
                 EXCEPT !.fen = PositionAfter(Len(OpeningMoves)),
                        !.moveHistory =
                           [i \in 1..Len(OpeningMoves) |->
                              [from |-> OpeningMoves[i][1], to |-> OpeningMoves[i][2],
                               promotion |-> ""]]]
  IN  /\ rtGames = [g \in GameIds |-> IF g = 1 THEN game ELSE NoGame]
      /\ fsGames = [g \in GameIds |->
                      IF g = 1 THEN OnlineGame(1, "u1", "u2", "active", presetName,
                                               costModeName)
                      ELSE NoGame]
      /\ steps = [g \in GameIds |-> [u \in Players |-> 0]]
      /\ userActiveGame = [u \in Players |-> IF u \in {"u1", "u2"} THEN 1 ELSE 0]
      /\ queue = [u \in Players |-> 0]
      /\ matches = [u \in Players |-> 0]
      /\ leaderboard = [u \in Players |-> EmptyStats]

\* a1 rook, b1 and g1 knights, c1 bishop, d1 queen, e1 king, a4 pawn, e3
\* empty, b8 and g8 black knights, e8 black king
Origins ==
  {<<1, 1>>, <<2, 1>>, g1, <<3, 1>>, <<4, 1>>, <<5, 1>>, <<1, 4>>, <<5, 3>>,
   <<2, 8>>, <<7, 8>>, <<5, 8>>}

InitCost ==
  /\ Environment
  /\ NothingScored
  /\ nextGameId = 2
  /\ \E presetName \in KNOWN_PRESET_NAMES, costModeName \in CostModes :
       OpenGameStore(presetName, costModeName)

NextCost ==
  \/ \E from \in Origins, to \in Squares, capturingKing \in BOOLEAN :
       makeMove(1, "u1", 1, from, to, NULL, capturingKing)
  \/ makeMove_getBalance(1)
  \/ makeMove_write(1)

SpecCost == InitCost /\ [][NextCost]_vars

\* SpecFreePlay: the two players of an active game, each with steps to spend,
\* move white and black pieces in any order.
FundedGameStore ==
  LET game == OnlineGame(1, "u1", "u2", "active", "Normal", "distance")
  IN  /\ rtGames = [g \in GameIds |-> IF g = 1 THEN game ELSE NoGame]
      /\ fsGames = [g \in GameIds |-> IF g = 1 THEN game ELSE NoGame]
      /\ steps = [g \in GameIds |-> [u \in Players |->
                    IF g = 1 /\ u \in {"u1", "u2"} THEN 100 ELSE 0]]
      /\ userActiveGame = [u \in Players |-> IF u \in {"u1", "u2"} THEN 1 ELSE 0]
      /\ queue = [u \in Players |-> 0]
      /\ matches = [u \in Players |-> 0]
      /\ leaderboard = [u \in Players |-> EmptyStats]

\* e2e4, e4e5, g1f3, e7e5, g8f6
FreePlayMoves ==
  {<<e2, e4>>, <<e4, e5>>, <<g1, f3>>, <<e7, e5>>, <<<<7, 8>>, <<6, 6>>>>}

InitFreePlay ==
  /\ Environment
  /\ NothingScored
  /\ FundedGameStore
  /\ nextGameId = 2

NextFreePlay ==
  \/ \E c \in LobbyCalls, u \in {"u1", "u2"}, m \in FreePlayMoves :
       makeMove(c, u, 1, m[1], m[2], NULL, FALSE)
  \/ \E c \in LobbyCalls : makeMove_getBalance(c)
  \/ \E c \in LobbyCalls : makeMove_write(c)

SpecFreePlay == InitFreePlay /\ [][NextFreePlay]_vars

\* SpecPromote: game 1 after white's a-pawn has run to b7 (a2a4, a4a5, a5a6,
\* a6b7, four moves of u1 in a row at 20 + 10 + 10 + 10 of 100 steps); u1
\* takes on a8 or c8 with and without a promotion piece, and the players make
\* other moves without one.
PawnRun ==
  << <<<<1, 2>>, <<1, 4>>>>, <<<<1, 4>>, <<1, 5>>>>, <<<<1, 5>>, <<1, 6>>>>,
     <<<<1, 6>>, <<2, 7>>>> >>

RECURSIVE AfterPawnRun(_)
AfterPawnRun(n) ==
  IF n = 0 THEN INITIAL_FEN
  ELSE ChessMove([AfterPawnRun(n - 1) EXCEPT !.turn = "w"],
                 PawnRun[n][1], PawnRun[n][2], NULL)

PromotionGameStore ==
  LET game == [OnlineGame(1, "u1", "u2", "active", "Normal", "distance")
                 EXCEPT !.fen = AfterPawnRun(Len(PawnRun)),
                        !.moveHistory =
                           [i \in 1..Len(PawnRun) |->
                              [from |-> PawnRun[i][1], to |-> PawnRun[i][2],
                               promotion |-> ""]]]
  IN  /\ rtGames = [g \in GameIds |-> IF g = 1 THEN game ELSE NoGame]
      /\ fsGames = [g \in GameIds |->
                      IF g = 1 THEN OnlineGame(1, "u1", "u2", "active", "Normal",
                                               "distance")
                      ELSE NoGame]
      /\ steps = [g \in GameIds |-> [u \in Players |->
                    IF g # 1 \/ u = "u3" THEN 0 ELSE IF u = "u1" THEN 50 ELSE 100]]
      /\ userActiveGame = [u \in Players |-> IF u \in {"u1", "u2"} THEN 1 ELSE 0]
      /\ queue = [u \in Players |-> 0]
      /\ matches = [u \in Players |-> 0]
      /\ leaderboard = [u \in Players |-> EmptyStats]

InitPromote ==
  /\ Environment
  /\ NothingScored
  /\ PromotionGameStore
  /\ nextGameId = 2

\* the moves asked for: b7a8, b7c8, e2e4, e7e5
NextPromote ==
  \/ \E c \in LobbyCalls, u \in {"u1", "u2"},
        m \in {<<<<2, 7>>, <<1, 8>>>>, <<<<2, 7>>, <<3, 8>>>>, <<e2, e4>>, <<e7, e5>>} :
       \E promotion \in IF IsLastRank(m[2]) THEN {NULL, "q", "n", "Q"} ELSE {NULL} :
         makeMove(c, u, 1, m[1], m[2], promotion, FALSE)
  \/ \E c \in LobbyCalls : makeMove_getBalance(c)
  \/ \E c \in LobbyCalls : makeMove_write(c)

SpecPromote == InitPromote /\ [][NextPromote]_vars

\* SpecRivals: the two players of an active game end it at the same time,
\* each claiming the win; the leaderboard reacts.
NextRivals ==
  \/ \E c \in LobbyCalls, u \in {"u1", "u2"} : endGame(c, u, 1, "win")
  \/ \E c \in LobbyCalls : endGame_write(c)
  \/ \E event \in BagToSet(fsEvents) : onGameCompleted(event)

SpecRivals == InitLedger /\ [][NextRivals]_vars

\* SpecLate: in an active game whose players have steps, u1 moves and earns
\* while u2 ends the game.
NextLate ==
  \/ \E c \in LobbyCalls : makeMove(c, "u1", 1, e2, e4, NULL, FALSE)
  \/ \E c \in LobbyCalls : makeMove_getBalance(c)
  \/ \E c \in LobbyCalls : makeMove_write(c)
  \/ \E c \in LobbyCalls : submitStepDelta(c, "u1", 1, 20)
  \/ \E c \in LobbyCalls : atomicIncrementStepBalance(c)
  \/ \E c \in LobbyCalls, o \in Outcomes : endGame(c, "u2", 1, o)
  \/ \E c \in LobbyCalls : endGame_write(c)

SpecLate == InitFreePlay /\ [][NextLate]_vars

\* SpecContend: u2 and u3 join the waiting game of u1 at the same time.
InitContend ==
  /\ Environment
  /\ NothingScored
  /\ WaitingGameStore
  /\ nextGameId = 2

NextContend ==
  \/ \E c \in LobbyCalls, u \in {"u2", "u3"} : joinGame(c, u, 1)
  \/ \E c \in LobbyCalls : joinGame_assert(c)
  \/ \E c \in LobbyCalls : joinGame_write(c)

SpecContend == InitContend /\ [][NextContend]_vars

\* SpecCrowd: matchmaking among four players.  u3 waits alone in the queue
\* (its own run found a single entry); u1, u2 and u4 enter it in this order,
\* one pairing run each.  The queue, the runs and the game ids are one larger than elsewhere,
\* so that three runs can each create a game.
InitCrowd ==
  LET CrowdPlayers == Players \cup {"u4"}
      CrowdRuns == 1..(MaxJoins + 1)
      CrowdGames == 1..(MaxGames + 1)
  IN
  /\ rtGames = [g \in CrowdGames |-> NoGame]
  /\ fsGames = [g \in CrowdGames |-> NoGame]
  /\ steps = [g \in CrowdGames |-> [u \in CrowdPlayers |-> 0]]
  /\ userActiveGame = [u \in CrowdPlayers |-> 0]
  /\ queue = [u \in CrowdPlayers |-> IF u = "u3" THEN 1 ELSE 0]
  /\ matches = [u \in CrowdPlayers |-> 0]
  /\ leaderboard = [u \in CrowdPlayers |-> EmptyStats]
  /\ calls = [c \in CallIds |-> NoCall]
  /\ runs = [r \in CrowdRuns |-> NoRun]
  /\ fsEvents = EmptyBag
  /\ nextGameId = 1
  /\ clock = 2
  /\ isEmulator = FALSE
  /\ config = DEFAULT_PRESETS
  /\ scored = [g \in CrowdGames |-> 0]

\* the player whose entry starts run r: u1, u2, then u4
NextCrowd ==
  \/ \E r \in DOMAIN runs :
       EnterQueue(r, CASE r = 1 -> "u1" [] r = 2 -> "u2" [] OTHER -> "u4")
  \/ \E r \in DOMAIN runs : matchmakingOnQueueWrite(r)
  \/ \E r \in DOMAIN runs : matchmaking_write(r)

SpecCrowd == InitCrowd /\ [][NextCrowd]_vars

\* SpecTrespass: the two players of an active game, each with steps to spend,
\* ask for moves of white and of black pieces, with and without the
\* king-capture flag.
NextTrespass ==
  \/ \E c \in LobbyCalls, u \in {"u1", "u2"}, m \in FreePlayMoves,
        capturingKing \in BOOLEAN :
       makeMove(c, u, 1, m[1], m[2], NULL, capturingKing)
  \/ \E c \in LobbyCalls : makeMove_getBalance(c)
  \/ \E c \in LobbyCalls : makeMove_write(c)

SpecTrespass == InitFreePlay /\ [][NextTrespass]_vars

\* ================================================================ claims
RECURSIVE Sum(_, _)
Sum(f, S) ==
  IF S = {} THEN 0
  ELSE LET x == CHOOSE y \in S : TRUE IN f[x] + Sum(f, S \ {x})

Returned(c) == calls[c].pc = "done"
Succeeded(c) == Returned(c) /\ calls[c].error = ""

\* the makeMove calls of player u on game g that succeeded, and what they cost
MovesPaid(g, u) ==
  {c \in CallIds : /\ calls[c].op = "makeMove" /\ Succeeded(c)
                   /\ calls[c].gameId = g /\ calls[c].uid = u}

Spent(g, u) == Sum([c \in CallIds |-> calls[c].cost], MovesPaid(g, u))

\* the submitStepDelta calls of player u on game g that were applied, and what
\* they earned
EarnsApplied(g, u) ==
  {c \in CallIds : /\ calls[c].op = "submitStepDelta" /\ Succeeded(c)
                   /\ calls[c].gameId = g /\ calls[c].uid = u}

Earned(g, u) == Sum([c \in CallIds |-> calls[c].delta], EarnsApplied(g, u))

\* C1: no double-spend.  Every balance starts at 0, so for every game and
\* player the costs of the makeMove calls that succeeded never add up to more
\* than the earns that were applied.
C1_NoDoubleSpend ==
  \A g \in GameIds, u \in Players : Spent(g, u) <= Earned(g, u)

\* A game that no createGame call of the run created: it was there at the start.
CreatedByCall(g) ==
  \E c \in CallIds : calls[c].op = "createGame" /\ calls[c].gameId = g

PlayersOf(game) == {game.whitePlayerId, game.blackPlayerId} \ {NULL}

IdleAtStart(u) ==
  \A g \in GameIds :
    (rtGames[g].status # "none" /\ u \in PlayersOf(rtGames[g])) => CreatedByCall(g)

\* C2: when the only calls made are two createGame calls of one player who held
\* no game at the start, and both have returned, then exactly one succeeded and
\* the other failed with failed-precondition.
C2_OneCreateWins ==
  \A c1, c2 \in CallIds :
    ( /\ c1 < c2
      /\ calls[c1].op = "createGame" /\ calls[c2].op = "createGame"
      /\ calls[c1].uid = calls[c2].uid
      /\ IdleAtStart(calls[c1].uid)
      /\ Returned(c1) /\ Returned(c2)
      /\ \A c \in CallIds \ {c1, c2} : calls[c].pc = "idle" )
    => {calls[c1].error, calls[c2].error} = {"", "failed-precondition"}

\* C3: two pairing runs whose games were created never consumed the same queue
\* entry (the same player's entry, with the same joinedAt).
C3_EntryPairedOnce ==
  \A r1, r2 \in RunIds :
    ( /\ r1 # r2
      /\ runs[r1].gameId # 0 /\ runs[r2].gameId # 0
      /\ rtGames[runs[r1].gameId].status # "none"
      /\ rtGames[runs[r2].gameId].status # "none" )
    => Range(runs[r1].entries) \cap Range(runs[r2].entries) = {}

\* The games of player u that are waiting or active
OpenGamesOf(u) ==
  {g \in GameIds : rtGames[g].status \in {"waiting", "active"}
                   /\ u \in PlayersOf(rtGames[g])}

\* C4: every player is white or black in at most one game that is waiting or
\* active.
C4_SingleActiveGame == \A u \in Players : Cardinality(OpenGamesOf(u)) <= 1

Terminal(status) == status \in {"completed", "abandoned"}

\* Call c is invoked in this step, on game g, as one of the four game actions.
InvokedOn(c, g) ==
  /\ calls[c].pc = "idle" /\ calls'[c].pc # "idle"
  /\ calls'[c].gameId = g
  /\ calls'[c].op \in {"joinGame", "makeMove", "submitStepDelta", "endGame"}

\* C5: completed and abandoned are terminal.  In every step taken while game g
\* is completed or abandoned, a joinGame, makeMove, submitStepDelta or endGame
\* call invoked on g fails at once with failed-precondition, and the status,
\* the outcome and the winner of g stay as they are.
C5_TerminalIsFinal ==
  [][\A g \in GameIds :
       Terminal(rtGames[g].status) =>
         /\ \A c \in CallIds :
              InvokedOn(c, g) =>
                calls'[c].pc = "done" /\ calls'[c].error = "failed-precondition"
         /\ rtGames'[g].status = rtGames[g].status
         /\ rtGames'[g].outcome = rtGames[g].outcome
         /\ rtGames'[g].winnerId = rtGames[g].winnerId]_vars

\* C6: the win/loss/draw counters are incremented on behalf of one game at
\* most once; scored[g] counts the trigger runs that incremented them for g.
C6_ScoredOnce == \A g \in GameIds : scored[g] <= 1

\* C7: a makeMove whose cost is greater than the balance it reads returns
\* failed-precondition with the needed amount (cost) and the available amount
\* (balance) in its error, having written nothing: the games and the balances
\* are as they were, and no write of the call has landed or is pending.
C7_InsufficientStepsFails ==
  [][\A c \in CallIds :
       ( /\ calls[c].pc = "makeMove_getBalance"
         /\ calls'[c] # calls[c]
         /\ calls[c].cost > steps[calls[c].gameId][calls[c].uid] )
       => /\ calls'[c].pc = "done"
          /\ calls'[c].error = "failed-precondition"
          /\ calls'[c].cost = calls[c].cost
          /\ calls'[c].balance = steps[calls[c].gameId][calls[c].uid]
          /\ calls'[c].done = {} /\ calls'[c].todo = {}
          /\ rtGames' = rtGames /\ steps' = steps]_vars

\* A move was refused for a balance that was positive but too small.
C7_Witness ==
  \E c \in CallIds :
    /\ calls[c].op = "makeMove" /\ Returned(c)
    /\ calls[c].error = "failed-precondition"
    /\ calls[c].balance > 0 /\ calls[c].cost > calls[c].balance
    /\ steps[calls[c].gameId][calls[c].uid] = calls[c].balance
    /\ rtGames[calls[c].gameId].moveHistory = <<>>

MoveInFlight ==
  \E c \in CallIds : calls[c].op = "makeMove" /\ calls[c].pc \notin {"idle", "done"}

\* C8: when no makeMove is in flight, every makeMove that returned has either
\* both its effects in the store (the board and move sequence written, the cost
\* deducted) or neither.
C8_MoveAllOrNothing ==
  ~MoveInFlight =>
    \A c \in CallIds :
      (calls[c].op = "makeMove" /\ Returned(c)) =>
        ("updateGameMove" \in calls[c].done <=> "setStepBalance" \in calls[c].done)

NoMoveMade == \A c \in CallIds : calls[c].op # "makeMove"

\* C9: earn is atomic.  The step in which a submitStepDelta call commits adds
\* its delta to the balance as it is at that instant and returns the balance
\* it committed; and as long as no move is made, every balance is the sum of
\* the deltas of the calls applied to it (every balance starts at 0).
C9_EarnAtomic ==
  [][/\ \A c \in CallIds :
          (calls[c].pc = "atomicIncrementStepBalance" /\ calls'[c] # calls[c]) =>
            /\ Succeeded(c)'
            /\ steps'[calls[c].gameId][calls[c].uid] =
                 steps[calls[c].gameId][calls[c].uid] + calls[c].delta
            /\ calls'[c].newBalance = steps'[calls[c].gameId][calls[c].uid]
     /\ NoMoveMade' =>
          \A g \in GameIds, u \in Players : steps'[g][u] = Earned(g, u)']_vars

\* Two earns of one player overlapped: the call invoked second committed first,
\* and both have returned.
C9_Witness ==
  \E c1, c2 \in CallIds :
    /\ c1 < c2 /\ NoMoveMade
    /\ calls[c1].op = "submitStepDelta" /\ calls[c2].op = "submitStepDelta"
    /\ calls[c1].uid = calls[c2].uid /\ calls[c1].gameId = calls[c2].gameId
    /\ Succeeded(c1) /\ Succeeded(c2)
    /\ calls[c1].newBalance = calls[c2].newBalance + calls[c1].delta

AllReturned == \A c \in CallIds : calls[c].pc \in {"idle", "done"}

\* C10: ledger conservation.  Once every call has returned, every balance is
\* the earns applied to it minus the costs of the moves that succeeded on it
\* (every balance starts at 0).
C10_LedgerConserved ==
  AllReturned =>
    \A g \in GameIds, u \in Players : steps[g][u] = Earned(g, u) - Spent(g, u)

IsPrefix(s, t) == Len(s) <= Len(t) /\ SubSeq(t, 1, Len(s)) = s

\* C12: the move sequence is append-only.  In every step, the stored move
\* sequence of every game after the step has the one before the step as a
\* prefix.
C12_MovesAppendOnly ==
  [][\A g \in GameIds :
       IsPrefix(rtGames[g].moveHistory, rtGames'[g].moveHistory)]_vars

\* The updateGameMove write of call c lands in this step.
CommitsMove(c) ==
  /\ calls[c].op = "makeMove"
  /\ "updateGameMove" \notin calls[c].done
  /\ "updateGameMove" \in calls'[c].done

\* C13: the board encoding a makeMove commits is the result of applying its
\* move to the encoding stored in the game at the instant of the commit.
C13_MoveAppliedToStoredBoard ==
  [][\A c \in CallIds :
       CommitsMove(c) =>
         LET game == rtGames[calls[c].gameId]
             res == validateAndApplyMove(game, calls[c].uid, calls[c].from,
                      calls[c].to, calls[c].promotion, calls[c].capturingKing,
                      getPreset(config, game.presetName))
         IN  res.error = "" /\ rtGames'[calls[c].gameId].fen = res.newFen]_vars

\* C11: every per-game step balance is a non-negative integer (0 when it was
\* never written), in every cost mode createGame lets through.
C11_BalanceNatural == \A g \in GameIds, u \in Players : steps[g][u] \in Nat

\* A move was paid with the whole balance, in a mode that charges a base cost.
C11_Witness ==
  \E c \in CallIds :
    /\ calls[c].op = "makeMove" /\ Succeeded(c)
    /\ rtGames[calls[c].gameId].costModeName \in {"baseDistance", "fixed"}
    /\ calls[c].cost > 0 /\ calls[c].cost = calls[c].balance
    /\ steps[calls[c].gameId][calls[c].uid] = 0

\* Call c is a makeMove whose move was validated and priced.
Priced(c) == calls[c].op = "makeMove" /\ calls[c].moveRecord # NoMove

\* C14: cost tables are frozen per game.  Two moves of one game with the same
\* origin, destination and king-capture flag (hence, with the moves made here,
\* the same piece; the game's cost mode never changes) are priced the same,
\* whenever they are made.
C14_CostFrozen ==
  \A c1, c2 \in CallIds :
    ( /\ Priced(c1) /\ Priced(c2)
      /\ calls[c1].gameId = calls[c2].gameId
      /\ calls[c1].from = calls[c2].from /\ calls[c1].to = calls[c2].to
      /\ calls[c1].capturingKing = calls[c2].capturingKing )
    => calls[c1].cost = calls[c2].cost

Exists(g) == rtGames[g].status # "none"

\* C15: in every game, the black player id is null if and only if the status
\* is waiting.
C15_BlackNullIffWaiting ==
  \A g \in GameIds :
    Exists(g) => (rtGames[g].blackPlayerId = NULL <=> rtGames[g].status = "waiting")

\* C16: in every game, an outcome is recorded if and only if the status is
\* completed or abandoned, and a winner id is recorded if and only if the
\* recorded outcome is win.
C16_OutcomeIffTerminal ==
  \A g \in GameIds :
    Exists(g) =>
      /\ rtGames[g].outcome # NULL <=> Terminal(rtGames[g].status)
      /\ rtGames[g].winnerId # NULL <=> rtGames[g].outcome = "win"

\* The players whose entries run r chose
Chosen(r) == {runs[r].entries[i].userId : i \in DOMAIN runs[r].entries}

\* Run r takes its snapshot in this step; one of its writes lands in this step.
TakesSnapshot(r) == runs[r].pc = "snapshot" /\ runs'[r].pc # "snapshot"
Lands(r, w) == runs[r].pc = "write" /\ w \in runs[r].todo /\ w \notin runs'[r].todo

\* C17: a pairing run that finds fewer than two entries ends and changes
\* nothing.  A run that finds two or more takes one game id and chooses two
\* entries, each older than every entry it leaves; its writes create and touch
\* that one game only, remove the two chosen entries, and leave every other
\* entry of the queue as it is.
C17_RunPairsTwoOldest ==
  [][\A r \in RunIds :
       /\ TakesSnapshot(r) =>
            /\ storeVars' = storeVars
            /\ IF Cardinality(Queued) < 2
                 THEN /\ runs'[r].pc = "done" /\ runs'[r].todo = {}
                      /\ runs'[r].gameId = 0 /\ nextGameId' = nextGameId
                 ELSE /\ nextGameId' = nextGameId + 1
                      /\ runs'[r].gameId = nextGameId
                      /\ Len(runs'[r].entries) = 2
                      /\ Cardinality(Chosen(r)') = 2
                      /\ Chosen(r)' \subseteq Queued
                      /\ \A i \in 1..2 :
                           runs'[r].entries[i].joinedAt =
                             queue[runs'[r].entries[i].userId]
                      /\ \A u \in Queued \ Chosen(r)', v \in Chosen(r)' :
                           queue[v] < queue[u]
       /\ (runs[r].pc = "write" /\ runs'[r] # runs[r]) =>
            /\ \A u \in Players \ Chosen(r) : queue'[u] = queue[u]
            /\ \A g \in GameIds \ {runs[r].gameId} :
                 rtGames'[g] = rtGames[g] /\ fsGames'[g] = fsGames[g]
            /\ Lands(r, "rtdb") => Exists(runs[r].gameId)'
            /\ Lands(r, "queue1") => queue'[runs[r].entries[1].userId] = 0
            /\ Lands(r, "queue2") => queue'[runs[r].entries[2].userId] = 0
            /\ runs'[r].pc = "done" <=> runs'[r].todo = {}]_vars

\* Of three entries a run has paired the two oldest into one game, and the
\* youngest is the one entry left in the queue.
C17_Witness ==
  \E r \in RunIds :
    /\ runs[r].pc = "done" /\ runs[r].gameId # 0
    /\ \A r2 \in RunIds \ {r} : runs[r2].gameId = 0
    /\ Cardinality(Queued) = 1
    /\ \A u \in Queued, i \in 1..2 :
         u \notin Chosen(r) /\ runs[r].entries[i].joinedAt < queue[u]
    /\ Cardinality({g \in GameIds : Exists(g)}) = 2

C19_FailedRunKeepsEntries ==
  [][\A r \in RunIds :
       ( /\ runs[r].pc = "write" /\ runs'[r] # runs[r]
         /\ \A r2 \in RunIds \ {r} : runs[r2].gameId = 0 ) =>
         LET g == runs[r].gameId
             first == runs[r].entries[1]
             second == runs[r].entries[2]
         IN  /\ (queue'[first.userId] # queue[first.userId]
                   \/ queue'[second.userId] # queue[second.userId]) =>
                  /\ Exists(g)
                  /\ matches[first.userId] = g /\ matches[second.userId] = g
             /\ (runs'[r].pc = "done" /\ runs'[r].failed) =>
                  /\ queue'[first.userId] = first.joinedAt
                  /\ queue'[second.userId] = second.joinedAt]_vars

\* C20: a createGame call whose presetName is not a known preset or whose
\* costModeName is not baseDistance, distance or fixed returns
\* invalid-argument and has named no game; every stored game carries a known
\* preset name and one of the three cost modes.
C20_InvalidArgumentsRejected ==
  /\ \A c \in CallIds :
       ( /\ calls[c].op = "createGame"
         /\ calls[c].pc = "done"
         /\ \/ calls[c].presetName \notin KNOWN_PRESET_NAMES
            \/ calls[c].costModeName \notin CostModes ) =>
         /\ calls[c].error = "invalid-argument"
         /\ calls[c].gameId = 0
  /\ \A g \in GameIds :
       /\ Exists(g) =>
            /\ rtGames[g].presetName \in KNOWN_PRESET_NAMES
            /\ rtGames[g].costModeName \in CostModes
       /\ fsGames[g].status # "none" =>
            /\ fsGames[g].presetName \in KNOWN_PRESET_NAMES
            /\ fsGames[g].costModeName \in CostModes
       /\ \A u \in Players :
            userActiveGame[u] = g =>
              \A c \in CallIds :
                (calls[c].op = "createGame" /\ calls[c].gameId = g) =>
                  calls[c].costModeName \in CostModes

\* The write of call c that lands in this step
Landed(c) == calls'[c].done \ calls[c].done

\* Every call but c is idle: c ran alone.
RanAlone(c) == \A c2 \in CallIds \ {c} : calls'[c2].pc = "idle"

\* C21: a createGame that passed its checks writes one new game, waiting, with
\* the caller as white, no black player, the starting position and no moves,
\* to both stores under an id that was free, and records it as the caller's
\* active game; each of its writes changes nothing else, it returns success
\* after exactly these three writes, and when it ran alone the stores then
\* hold that game and that pointer.
C21_CreateGameEffect ==
  [][\A c \in CallIds :
       (calls[c].pc = "createGameRecord" /\ calls'[c] # calls[c]) =>
         LET g == calls[c].gameId
             u == calls[c].uid
             IsNew(game) ==
               /\ game.id = g /\ game.status = "waiting"
               /\ game.whitePlayerId = u /\ game.blackPlayerId = NULL
               /\ game.fen = INITIAL_FEN /\ game.moveHistory = <<>>
               /\ game.presetName = calls[c].presetName
               /\ game.costModeName = calls[c].costModeName
               /\ game.outcome = NULL /\ game.winnerId = NULL
         IN  /\ \E w \in {"rtdb", "firestore", "userActiveGame"} : Landed(c) = {w}
             /\ \A g2 \in GameIds :
                  /\ rtGames'[g2] # rtGames[g2] =>
                       /\ g2 = g /\ Landed(c) = {"rtdb"}
                       /\ rtGames[g] = NoGame /\ IsNew(rtGames'[g])
                  /\ fsGames'[g2] # fsGames[g2] =>
                       /\ g2 = g /\ Landed(c) = {"firestore"}
                       /\ fsGames[g] = NoGame /\ IsNew(fsGames'[g])
             /\ Landed(c) = {"rtdb"} => rtGames'[g] # rtGames[g]
             /\ Landed(c) = {"firestore"} => fsGames'[g] # fsGames[g]
             /\ \A u2 \in Players :
                  userActiveGame'[u2] =
                    IF u2 = u /\ Landed(c) = {"userActiveGame"} THEN g
                    ELSE userActiveGame[u2]
             /\ UNCHANGED <<steps, queue, matches, leaderboard>>
             /\ calls'[c].pc = "done" =>
                  /\ calls'[c].error = ""
                  /\ calls'[c].done = {"rtdb", "firestore", "userActiveGame"}
                  /\ RanAlone(c) =>
                       /\ IsNew(rtGames'[g]) /\ IsNew(fsGames'[g])
                       /\ userActiveGame'[u] = g]_vars

C21_Witness ==
  \E c \in CallIds :
    /\ calls[c].op = "createGame" /\ Succeeded(c)
    /\ \A c2 \in CallIds \ {c} : calls[c2].pc = "idle"
    /\ rtGames[calls[c].gameId].status = "waiting"
    /\ rtGames[calls[c].gameId].whitePlayerId = calls[c].uid
    /\ userActiveGame[calls[c].uid] = calls[c].gameId
    /\ \E g \in GameIds \ {calls[c].gameId} : Exists(g)

\* Call c is invoked in this step as operation op.
Invoked(c, op) == calls[c].pc = "idle" /\ calls'[c].op = op

\* Call c returns in this step with one of the errors of its checks.
Rejected(c) ==
  /\ calls[c].pc # "done" /\ calls'[c].pc = "done"
  /\ calls'[c].error \in {"not-found", "failed-precondition", "permission-denied",
                          "invalid-argument"}

\* What a step of joinGame call c must satisfy.  selfJoinExempt tells whether
\* the creator joining their own game in the emulator is exempt from the
\* active-game check.
JoinGameContract(c, selfJoinExempt) ==
  LET g == calls'[c].gameId
      u == calls'[c].uid
      game == rtGames[g]
      selfJoin == isEmulator /\ game.whitePlayerId = u
  IN  /\ ( /\ Invoked(c, "joinGame")
           /\ \/ game.status # "waiting"
              \/ game.blackPlayerId # NULL
              \/ ~isEmulator /\ game.whitePlayerId = u ) =>
           calls'[c].pc = "done" /\ calls'[c].error # ""
      /\ ( /\ calls'[c].op = "joinGame"
           /\ calls[c].pc # "joinGame_write" /\ calls'[c].pc = "joinGame_write" ) =>
           \/ userActiveGame[u] = 0
           \/ selfJoinExempt /\ selfJoin
      /\ (calls'[c].op = "joinGame" /\ Rejected(c)) =>
           /\ UNCHANGED storeVars
           /\ calls'[c].done = {}
      /\ (calls[c].pc = "joinGame_write" /\ calls'[c] # calls[c]) =>
           /\ rtGames' = IF Landed(c) = {"rtdb"}
                           THEN [rtGames EXCEPT ![g].blackPlayerId = u,
                                                ![g].status = "active"]
                           ELSE rtGames
           /\ (Landed(c) = {"firestore"}) =>
                fsGames' = [fsGames EXCEPT ![g].blackPlayerId = u,
                                           ![g].status = "active"]
           /\ (Landed(c) # {"firestore"}) => fsGames' = fsGames
           /\ userActiveGame' = IF Landed(c) = {"userActiveGame"}
                                  THEN [userActiveGame EXCEPT ![u] = g]
                                  ELSE userActiveGame
           /\ UNCHANGED <<steps, queue, matches, leaderboard>>
           /\ (calls'[c].pc = "done" /\ calls'[c].error = "") =>
                calls'[c].done = {"rtdb", "firestore", "userActiveGame"}

\* C22 (as amended): joinGame fails and changes no state when the game does
\* not exist, is not waiting or has a black player, when (outside the
\* emulator) the joiner is the creator, or when the joiner has an active-game
\* pointer, except for the creator joining their own game in the emulator;
\* otherwise it sets the joiner as black, the status to active and the
\* joiner's pointer to the game.
C22_JoinGameChecked == [][\A c \in CallIds : JoinGameContract(c, TRUE)]_vars

\* C22 (as stated): the same, with no exception for the emulator's self-join.
C22_JoinGameAsStated == [][\A c \in CallIds : JoinGameContract(c, FALSE)]_vars

C22_Witness ==
  /\ \E c \in CallIds :
       /\ calls[c].op = "joinGame" /\ Succeeded(c)
       /\ rtGames[calls[c].gameId].blackPlayerId = calls[c].uid
       /\ rtGames[calls[c].gameId].whitePlayerId = calls[c].uid
       /\ rtGames[calls[c].gameId].status = "active"
  /\ \E c \in CallIds :
       /\ calls[c].op = "joinGame" /\ Returned(c)
       /\ calls[c].error = "failed-precondition"

\* C23: a submitStepDelta call goes on to its increment exactly when the game
\* it reads exists and is active, the caller is one of its two players and
\* delta is a positive integer not above the cap; the increment then adds
\* exactly delta to the caller's balance in that game and returns success;
\* in every other case the call fails, and no step of a submitStepDelta call
\* changes anything else.
C23_EarnCheckedAndExact ==
  [][\A c \in CallIds :
       LET g == calls'[c].gameId
           u == calls'[c].uid
           delta == calls'[c].delta
           game == rtGames[g]
           valid == /\ game.status = "active"
                    /\ u \in {game.whitePlayerId, game.blackPlayerId}
                    /\ delta > 0 /\ delta <= MAX_STEP_DELTA_PER_CALL
       IN  /\ Invoked(c, "submitStepDelta") =>
                /\ UNCHANGED storeVars
                /\ IF valid THEN calls'[c].pc = "atomicIncrementStepBalance"
                   ELSE calls'[c].pc = "done" /\ calls'[c].error # ""
           /\ (calls[c].pc = "atomicIncrementStepBalance" /\ calls'[c] # calls[c]) =>
                /\ steps' = [steps EXCEPT ![g][u] = steps[g][u] + delta]
                /\ steps'[g][u] > steps[g][u]
                /\ UNCHANGED <<rtGames, fsGames, userActiveGame, queue, matches,
                               leaderboard>>
                /\ calls'[c].pc = "done" /\ calls'[c].error = ""]_vars

C23_Witness ==
  /\ \E c \in CallIds :
       /\ calls[c].op = "submitStepDelta" /\ Succeeded(c)
       /\ calls[c].delta = MAX_STEP_DELTA_PER_CALL
       /\ steps[calls[c].gameId][calls[c].uid] = MAX_STEP_DELTA_PER_CALL
  /\ \E c \in CallIds :
       /\ calls[c].op = "submitStepDelta" /\ Returned(c)
       /\ calls[c].delta = MAX_STEP_DELTA_PER_CALL + 1
       /\ calls[c].error = "invalid-argument"
       /\ steps[calls[c].gameId][calls[c].uid] = MAX_STEP_DELTA_PER_CALL

\* C24: an endGame by a player of the game writes, to both stores, the status
\* completed for win and draw and abandoned for abandoned, and the outcome;
\* it writes the caller as winner when the outcome is win and writes no
\* winner otherwise; its pointer write leaves neither player of the game with
\* an active-game pointer; no write changes anything else, and the call
\* returns success after these three writes.
C24_EndGameEffect ==
  [][\A c \in CallIds :
       (calls[c].pc = "endGame_write" /\ calls'[c] # calls[c]) =>
         LET g == calls[c].gameId
             u == calls[c].uid
             o == calls[c].outcome
             Ended(before, after) ==
               /\ after.status = IF o \in {"win", "draw"} THEN "completed"
                                 ELSE "abandoned"
               /\ after.outcome = o
               /\ after.winnerId = IF o = "win" THEN u ELSE before.winnerId
               /\ \A f \in DOMAIN before \ {"status", "outcome", "winnerId"} :
                    after[f] = before[f]
             players == PlayersOf(calls[c].game)
         IN  /\ u \in players
             /\ \A g2 \in GameIds :
                  /\ rtGames'[g2] # rtGames[g2] => g2 = g /\ Landed(c) = {"rtdb"}
                  /\ fsGames'[g2] # fsGames[g2] => g2 = g /\ Landed(c) = {"firestore"}
             /\ Landed(c) = {"rtdb"} => Ended(rtGames[g], rtGames'[g])
             /\ Landed(c) = {"firestore"} => Ended(fsGames[g], fsGames'[g])
             /\ \A u2 \in Players :
                  userActiveGame'[u2] =
                    IF u2 \in players /\ Landed(c) = {"clearUserActiveGames"} THEN 0
                    ELSE userActiveGame[u2]
             /\ UNCHANGED <<steps, queue, matches, leaderboard>>
             /\ (calls'[c].pc = "done" /\ calls'[c].error = "") =>
                  /\ calls'[c].done = {"rtdb", "firestore", "clearUserActiveGames"}
                  /\ RanAlone(c) =>
                       /\ Ended(rtGames'[g], rtGames'[g])
                       /\ Ended(fsGames'[g], fsGames'[g])
                       /\ rtGames'[g].winnerId = IF o = "win" THEN u ELSE NULL
                       /\ fsGames'[g].winnerId = IF o = "win" THEN u ELSE NULL
                       /\ \A u2 \in players : userActiveGame'[u2] = 0]_vars

C24_Witness ==
  \E c \in CallIds :
    /\ calls[c].op = "endGame" /\ Succeeded(c) /\ calls[c].outcome = "win"
    /\ rtGames[calls[c].gameId].status = "completed"
    /\ rtGames[calls[c].gameId].blackPlayerId # NULL
    /\ fsGames[calls[c].gameId].winnerId = calls[c].uid
    /\ \A u \in PlayersOf(rtGames[calls[c].gameId]) : userActiveGame[u] = 0

\* What the invocation of call c must satisfy when it names an existing game
\* of which the caller is neither the white nor the black player.
\* earlierChecks tells whether the checks that precede the player check may
\* answer first: makeMove's status check and submitStepDelta's delta check.
StrangerContract(c, earlierChecks) ==
  LET g == calls'[c].gameId
      u == calls'[c].uid
      game == rtGames[g]
  IN  ( /\ calls[c].pc = "idle"
        /\ calls'[c].op \in {"makeMove", "endGame", "submitStepDelta"}
        /\ game.status # "none"
        /\ u # game.whitePlayerId /\ u # game.blackPlayerId ) =>
        /\ calls'[c].pc = "done"
        /\ calls'[c].done = {}
        /\ UNCHANGED storeVars
        /\ calls'[c].error =
             IF earlierChecks /\ calls'[c].op = "makeMove" /\ game.status # "active"
               THEN "failed-precondition"
             ELSE IF earlierChecks /\ calls'[c].op = "submitStepDelta"
                       /\ calls'[c].delta <= 0
               THEN "invalid-argument"
             ELSE "permission-denied"

\* C25 (as amended): a makeMove, endGame or submitStepDelta call by a caller
\* who is neither player of the named game fails and changes nothing; its
\* error is permission-denied, unless the game is not active (makeMove:
\* failed-precondition) or delta is not positive (submitStepDelta:
\* invalid-argument).
C25_StrangerRejected == [][\A c \in CallIds : StrangerContract(c, TRUE)]_vars

\* C25 (as stated): the error is permission-denied in every such case.
C25_StrangerPermissionDenied == [][\A c \in CallIds : StrangerContract(c, FALSE)]_vars

C25_Witness ==
  /\ rtGames[1].status = "active"
  /\ \E c \in CallIds :
       /\ calls[c].op = "makeMove" /\ calls[c].uid = "u3"
       /\ Returned(c) /\ calls[c].error = "permission-denied"
  /\ \E c \in CallIds :
       /\ calls[c].op = "endGame" /\ calls[c].uid = "u3"
       /\ Returned(c) /\ calls[c].error = "permission-denied"
  /\ rtGames[1] = fsGames[1] /\ rtGames[1].moveHistory = <<>>
  /\ userActiveGame["u1"] = 1 /\ userActiveGame["u2"] = 1

\* The trigger handles the document-updated event in this step.
Handles(event) ==
  /\ BagIn(event, fsEvents)
  /\ fsEvents' = fsEvents (-) SetToBag({event})

\* An update whose before-status differs from its after-status and whose
\* after-status is completed
IntoCompleted(event) ==
  event.beforeStatus # event.after.status /\ event.after.status = "completed"

Counters(stats) == <<stats.wins, stats.losses, stats.draws>>

\* C26: the win, loss and draw counters change only in the trigger's handling
\* of an update whose before-status differs from its after-status and whose
\* after-status is completed; handling any other update changes no counter.
C26_CountsOnlyIntoCompleted ==
  [][/\ (\E u \in Players : Counters(leaderboard'[u]) # Counters(leaderboard[u])) =>
          \E event \in BagToSet(fsEvents) : Handles(event) /\ IntoCompleted(event)
     /\ \A event \in BagToSet(fsEvents) :
          (Handles(event) /\ ~IntoCompleted(event)) => leaderboard' = leaderboard]_vars

C26_Witness ==
  /\ fsEvents = EmptyBag
  /\ fsGames[1].status = "completed" /\ fsGames[1].outcome = "draw"
  /\ fsGames[1].winnerId = "u1"
  /\ Counters(leaderboard["u1"]) = <<1, 0, 0>>
  /\ Counters(leaderboard["u2"]) = <<0, 1, 0>>

\* C27: when the trigger scores a completed game, for outcome win with a
\* winner the winner's wins go up by one and the other player's losses go up
\* by one; for outcome draw both players' draws go up by one; for a game with
\* no black player, no outcome or outcome abandoned nothing changes; and no
\* other counter of any player changes.
C27_ExactCounters ==
  [][\A event \in BagToSet(fsEvents) :
       (Handles(event) /\ IntoCompleted(event)) =>
         LET game == event.after
             scorable == game.blackPlayerId # NULL
                           /\ game.outcome \notin {NULL, "abandoned"}
             won == scorable /\ game.outcome = "win" /\ game.winnerId # NULL
             drawn == scorable /\ game.outcome = "draw"
             other == CHOOSE u \in {game.whitePlayerId, game.blackPlayerId} :
                        won => u # game.winnerId
             One(b) == IF b THEN 1 ELSE 0
         IN  \A u \in Players :
               /\ leaderboard'[u].wins =
                    leaderboard[u].wins + One(won /\ u = game.winnerId)
               /\ leaderboard'[u].losses =
                    leaderboard[u].losses + One(won /\ u = other)
               /\ leaderboard'[u].draws =
                    leaderboard[u].draws
                      + One(drawn /\ u \in {game.whitePlayerId, game.blackPlayerId})
               /\ leaderboard'[u].totalStepsSpent = leaderboard[u].totalStepsSpent
               /\ leaderboard'[u].totalMovesPlayed = leaderboard[u].totalMovesPlayed]_vars

C27_Witness ==
  /\ fsEvents = EmptyBag
  /\ fsGames[1].outcome = "win" /\ fsGames[1].winnerId = "u2"
  /\ Counters(leaderboard["u2"]) = <<1, 0, 0>>
  /\ Counters(leaderboard["u1"]) = <<0, 1, 0>>
  /\ Counters(leaderboard["u3"]) = <<0, 0, 0>>

\* Call c is a makeMove that passes validation in this step.
Prices(c) ==
  /\ calls[c].pc = "idle"
  /\ calls'[c].op = "makeMove" /\ calls'[c].pc = "makeMove_getBalance"

\* The geometry of a move in board coordinates
FileDelta(from, to) == Abs(to[1] - from[1])
RankDelta(from, to) == Abs(to[2] - from[2])

\* the distance of the claims: |dx| + |dy| for a knight, max(|dx|, |dy|) otherwise
ClaimedDistance(kind, from, to) ==
  IF kind = "n" THEN FileDelta(from, to) + RankDelta(from, to)
  ELSE Max(FileDelta(from, to), RankDelta(from, to))

\* the piece's base cost in the preset
ClaimedBase(preset, kind) ==
  CASE kind = "p" -> preset.pawn [] kind = "n" -> preset.knight
    [] kind = "b" -> preset.bishop [] kind = "r" -> preset.rook
    [] kind = "q" -> preset.queen [] kind = "k" -> preset.king

\* C28: the cost of every priced move is, in mode baseDistance, the piece's
\* base cost plus distance times distanceCost; in mode distance, distance
\* times distanceCost; in mode fixed, the base cost, doubled exactly when the
\* king-capture flag is set; with |dx| + |dy| as the knight's distance and
\* max(|dx|, |dy|) as every other piece's.
C28_CostFormula ==
  [][\A c \in CallIds :
       Prices(c) =>
         LET game == rtGames[calls'[c].gameId]
             preset == config[game.presetName]
             kind == Lower(At(game.fen.board, calls'[c].from))
             base == ClaimedBase(preset, kind)
             d == ClaimedDistance(kind, calls'[c].from, calls'[c].to)
         IN  calls'[c].cost =
               CASE game.costModeName = "baseDistance" -> base + d * preset.distanceCost
                 [] game.costModeName = "distance" -> d * preset.distanceCost
                 [] game.costModeName = "fixed" ->
                      IF calls'[c].capturingKing THEN 2 * base ELSE base]_vars

C28_Witness ==
  \E c \in CallIds :
    /\ calls[c].op = "makeMove" /\ calls[c].pc = "makeMove_getBalance"
    /\ rtGames[1].presetName = "Normal" /\ rtGames[1].costModeName = "baseDistance"
    /\ calls[c].from = g1 /\ calls[c].to = f3 /\ ~calls[c].capturingKing
    /\ calls[c].cost = 110

\* C29: in modes distance and baseDistance, a move costs at least as much as
\* every move of the same piece from the same square over a distance that is
\* not larger; a knight's move by one of its 8 deltas has distance 3 and a
\* king's single step has distance 1.
C29_MonotoneInDistance ==
  [][\A c \in CallIds :
       Prices(c) =>
         LET game == rtGames[calls'[c].gameId]
             preset == config[game.presetName]
             from == calls'[c].from
             to == calls'[c].to
             kind == Lower(At(game.fen.board, from))
             Dist(sq) == ClaimedDistance(kind, from, sq)
             Cost(sq) == calculateCost(preset, game.costModeName, kind, from, sq,
                                       calls'[c].capturingKing)
         IN  /\ game.costModeName \in {"distance", "baseDistance"} =>
                  \A sq \in Squares : Dist(sq) <= Dist(to) => Cost(sq) <= calls'[c].cost
             /\ (kind = "n" /\ {FileDelta(from, to), RankDelta(from, to)} = {1, 2}) =>
                  moveDistance(kind, from, to) = 3
             /\ (kind = "k" /\ Max(FileDelta(from, to), RankDelta(from, to)) = 1) =>
                  moveDistance(kind, from, to) = 1]_vars

C29_Witness ==
  \E c \in CallIds :
    /\ calls[c].op = "makeMove" /\ calls[c].pc = "makeMove_getBalance"
    /\ rtGames[1].presetName = "Marathon" /\ rtGames[1].costModeName = "distance"
    /\ calls[c].from = <<7, 8>> /\ calls[c].to = <<5, 7>> /\ calls[c].capturingKing
    /\ calls[c].cost = 150

\* What the invocation of a makeMove with the king-capture flag must satisfy,
\* when the game is active and the caller one of its players.  asStated
\* prices every such move at double the base cost and empties the origin in
\* every case; otherwise the price is double the base cost in mode fixed and
\* that of an ordinary move in the other modes, and the origin is emptied
\* when it differs from the destination.
KingCaptureContract(c, asStated) ==
  LET game == rtGames[calls'[c].gameId]
      preset == config[game.presetName]
      from == calls'[c].from
      to == calls'[c].to
      attacker == At(game.fen.board, from)
      kind == Lower(attacker)
      after == calls'[c].newFen.board
  IN  ( /\ calls[c].pc = "idle"
        /\ calls'[c].op = "makeMove" /\ calls'[c].capturingKing
        /\ game.status = "active"
        /\ calls'[c].uid \in {game.whitePlayerId, game.blackPlayerId} ) =>
        IF attacker = "."
          THEN calls'[c].pc = "done" /\ calls'[c].error = "invalid-argument"
        ELSE /\ calls'[c].pc = "makeMove_getBalance"
             /\ after[Idx(to)] = attacker
             /\ (asStated \/ from # to) => after[Idx(from)] = "."
             /\ \A sq \in Squares \ {from, to} : after[Idx(sq)] = game.fen.board[Idx(sq)]
             /\ calls'[c].cost =
                  IF asStated \/ game.costModeName = "fixed"
                    THEN 2 * ClaimedBase(preset, kind)
                  ELSE IF game.costModeName = "baseDistance"
                    THEN ClaimedBase(preset, kind)
                           + ClaimedDistance(kind, from, to) * preset.distanceCost
                  ELSE ClaimedDistance(kind, from, to) * preset.distanceCost

\* C30 (as amended): a makeMove with the king-capture flag never consults the
\* legality oracle: it fails with invalid-argument when the origin is empty,
\* and otherwise produces the board in which the destination holds the
\* attacker and the origin, if another square, is empty, priced at double the
\* attacker's base cost in mode fixed and as an ordinary move in the modes
\* distance and baseDistance.
C30_KingCapture == [][\A c \in CallIds : KingCaptureContract(c, FALSE)]_vars

\* C30 (as stated): priced at double the attacker's base cost in every mode,
\* with the origin empty afterwards in every case.
C30_KingCaptureDoubleBase == [][\A c \in CallIds : KingCaptureContract(c, TRUE)]_vars

C30_Witness ==
  \E c \in CallIds :
    /\ calls[c].op = "makeMove" /\ calls[c].pc = "makeMove_getBalance"
    /\ calls[c].capturingKing
    /\ rtGames[1].presetName = "Normal" /\ rtGames[1].costModeName = "fixed"
    /\ calls[c].from = <<4, 1>> /\ calls[c].to = <<5, 8>>
    /\ ChessMove(rtGames[1].fen, calls[c].from, calls[c].to, NULL) = NoFen
    /\ At(rtGames[1].fen.board, <<5, 8>>) = "k"
    /\ At(calls[c].newFen.board, <<5, 8>>) = "Q"
    /\ At(calls[c].newFen.board, <<4, 1>>) = "."
    /\ calls[c].cost = 300

\* The colour a caller plays in a game
ColourOf(uid, game) == IF uid = game.whitePlayerId THEN "w" ELSE "b"

\* The stored board with the side to move set to the given colour
TurnedTo(fen, colour) == [board |-> fen.board, turn |-> colour]

C32_MovesCounted ==
  AllReturned =>
    \A u \in Players :
      /\ leaderboard[u].totalMovesPlayed =
           Sum([g \in GameIds |-> Cardinality(MovesPaid(g, u))], GameIds)
      /\ leaderboard[u].totalStepsSpent =
           Sum([g \in GameIds |-> Spent(g, u)], GameIds)

\* The promotion piece a move applied: the kind of the piece that stands on
\* the destination afterwards when a pawn left the origin and no pawn arrived.
AppliedPromotion(before, after, from, to) ==
  IF Lower(At(before, from)) = "p" /\ Lower(At(after, to)) # "p"
    THEN Lower(At(after, to)) ELSE ""

\* C33: the token a successful makeMove appends to the move sequence is the
\* origin, the destination and the promotion piece that was applied to the
\* board (in either case of its letter), empty when the move is no promotion;
\* a pawn move to the last rank sent without a promotion piece is applied and
\* recorded as a queen promotion.
C33_TokenRecordsAppliedMove ==
  [][\A c \in CallIds :
       /\ (Invoked(c, "makeMove") /\ calls'[c].pc = "makeMove_getBalance") =>
            LET before == rtGames[calls'[c].gameId].fen.board
                after == calls'[c].newFen.board
                from == calls'[c].from
                to == calls'[c].to
            IN  /\ [calls'[c].moveRecord EXCEPT !.promotion = Lower(@)] =
                     [from |-> from, to |-> to,
                      promotion |-> AppliedPromotion(before, after, from, to)]
                /\ (/\ Lower(At(before, from)) = "p" /\ IsLastRank(to)
                    /\ calls'[c].promotion = NULL) =>
                     /\ Lower(At(after, to)) = "q"
                     /\ calls'[c].moveRecord.promotion = "q"
       /\ (calls[c].op = "makeMove" /\ "updateGameMove" \in Landed(c)) =>
            LET history == rtGames'[calls[c].gameId].moveHistory
            IN  /\ Len(history) > 0
                /\ history[Len(history)] = calls[c].moveRecord]_vars

\* No callable, pairing run or leaderboard reaction is in flight.
Quiescent ==
  /\ AllReturned
  /\ \A r \in RunIds : runs[r].pc \in {"idle", "done"}
  /\ fsEvents = EmptyBag

\* C34: whenever no operation is in flight, the realtime-store copy and the
\* durable-store copy of every game agree on status, black player, outcome
\* and winner.
C34_CopiesAgree ==
  Quiescent =>
    \A g \in GameIds :
      /\ rtGames[g].status = fsGames[g].status
      /\ rtGames[g].blackPlayerId = fsGames[g].blackPlayerId
      /\ rtGames[g].outcome = fsGames[g].outcome
      /\ rtGames[g].winnerId = fsGames[g].winnerId

\* C35: whenever no operation is in flight, a player's active-game pointer
\* names game g exactly when the player is the white or black player of g and
\* g is waiting or active.
C35_PointerConsistent ==
  Quiescent =>
    \A u \in Players, g \in GameIds :
      userActiveGame[u] = g <=>
        /\ u \in PlayersOf(rtGames[g])
        /\ rtGames[g].status \in {"waiting", "active"}

\* C36: once a game is completed or abandoned, its board, its move sequence
\* and its players' step balances never change again.
C36_FrozenAfterEnd ==
  [][\A g \in GameIds :
       Terminal(rtGames[g].status) =>
         /\ rtGames'[g].fen = rtGames[g].fen
         /\ rtGames'[g].moveHistory = rtGames[g].moveHistory
         /\ steps'[g] = steps[g]]_vars

\* the joinGame calls on game g that returned success
Joined(g) ==
  {c \in CallIds : calls[c].op = "joinGame" /\ Succeeded(c) /\ calls[c].gameId = g}

\* C37: of the joinGame calls that different players make on one game at most
\* one returns success, and once every call has returned the game's black
\* player is the caller whose call succeeded.
C37_OneJoinWins ==
  \A g \in GameIds :
    /\ \A c, d \in Joined(g) : calls[c].uid = calls[d].uid
    /\ AllReturned =>
         \A c \in Joined(g) : rtGames[g].blackPlayerId = calls[c].uid

\* C38: no stranded pair.  Whenever every pairing run that was triggered has
\* completed, fewer than two entries remain in the queue.
C38_NoStrandedPair ==
  (\A r \in DOMAIN runs : runs[r].pc \in {"idle", "done"}) =>
    Cardinality(Queued) < 2

\* C39: whenever no operation is in flight and the durable copy of game 1,
\* which the leaderboard reads, stands completed with outcome win, the player
\* recorded as its winner has the win counted for it and the other player the
\* loss (every counter starts at 0 and game 1 is the only game).
C39_WinnerIsCredited ==
  (Quiescent /\ fsGames[1].status = "completed" /\ fsGames[1].outcome = "win") =>
    LET winner == fsGames[1].winnerId
        loser == IF winner = fsGames[1].whitePlayerId THEN fsGames[1].blackPlayerId
                 ELSE fsGames[1].whitePlayerId
    IN  /\ leaderboard[winner].wins = 1 /\ leaderboard[winner].losses = 0
        /\ leaderboard[loser].losses = 1 /\ leaderboard[loser].wins = 0

\* C40: whenever the board written by a makeMove lands, the piece it has put
\* on the destination square is of the caller's colour.
C40_OwnPiecesOnly ==
  [][\A c \in CallIds :
       (calls[c].op = "makeMove" /\ "updateGameMove" \in Landed(c)) =>
         LET game == rtGames'[calls[c].gameId]
         IN  ColorOf(At(game.fen.board, calls[c].to)) = ColourOf(calls[c].uid, game)]_vars

====
